---- MODULE Spec2Model ----
(***************************************************************************)
(* Catch-the-leader intercept guidance (mavproxy_catchleader.py).          *)
(*                                                                         *)
(* Units.  Floating-point quantities of the module are held in fixed       *)
(* point: latitude/longitude in grid units of one metre of arc, altitudes  *)
(* in centimetres, speeds in cm/s, headings in centidegrees, the smoothing *)
(* coefficient in hundredths, the engine clock and the time settings in    *)
(* clock ticks.  An Optional[...] value is <<>> (None) or <<v>>; a target  *)
(* is the triple <<lat, lon, alt>>.                                        *)
(*                                                                         *)
(* Display-only state (vehicle labels, status and warning texts, map       *)
(* overlay, _last_target_info) is not part of the model: no guidance       *)
(* decision reads it.  The status text of a solve is a result of           *)
(* compute_intercept.                                                      *)
(***************************************************************************)
EXTENDS Integers, Sequences, FiniteSets, TLC

VARIABLES
    eng,                 \* the CatchLeader instance (fields of self)
    now,                 \* the engine clock, self.get_time()
    mav_param_by_sysid,  \* mpstate.mav_param_by_sysid, the parameter store
    ui_pipe,             \* commands sent by the UI process, not yet polled
    commands,            \* idle_task: list returned by poll_commands, rest
    tick_pc,             \* idle_task: position of the running tick
    last_op,             \* the step taken last: handler name and arguments
    link,                \* engine times of the last two position targets sent
    speed_cmd,           \* the speed command sent last since the mode was HOLD
    ret,                 \* value returned by the last direct call of a function
    notified,            \* direct calls of compute_intercept: speed source of
                         \* the last one that resolved a speed, and the last
                         \* telemetry notification any of them posted
    twin                 \* SpecSink: a second engine given the same inputs as
                         \* eng behind another UI sink and map; <<>> elsewhere

vars == <<eng, now, mav_param_by_sysid, ui_pipe, commands, tick_pc, last_op, link, speed_cmd, ret,
          notified, twin>>

----------------------------------------------------------------------------
(* Bounds of the model *)

MaxTime == 2
MaxPipe == 1

----------------------------------------------------------------------------
(* Generic helpers *)

NoneVal == <<>>

Some(v) == <<v>>

IsNone(o) == o = <<>>

Val(o) == o[1]

Max2(a, b) == IF a >= b THEN a ELSE b

Min2(a, b) == IF a <= b THEN a ELSE b

Abs(a) == IF a >= 0 THEN a ELSE 0 - a

\* str.upper() on the flight-mode labels of the model
Upper(s) ==
    CASE s = "guided" -> "GUIDED"
      [] s = "Loiter" -> "LOITER"
      [] OTHER -> s

\* str.lower() on the profile names of the model
Lower(s) ==
    CASE s = "MAX" -> "max"
      [] s = "Cruise" -> "cruise"
      [] s = "CUSTOM" -> "custom"
      [] OTHER -> s

----------------------------------------------------------------------------
(* VehicleState *)

NewVehicleState ==
    [lat |-> NoneVal, lon |-> NoneVal, rel_alt |-> NoneVal, amsl_alt |-> NoneVal,
     vx |-> NoneVal, vy |-> NoneVal, vz |-> NoneVal, heading |-> NoneVal,
     mode |-> "UNKNOWN", armed |-> FALSE, last_update |-> 0, last_heartbeat |-> 0]

HdgInvalid == 65535

\* the mutation of update_from_position that stores the position without
\* the velocity
update_from_position_partial(vs, msg, timestamp) ==
    [vs EXCEPT !.lat = Some(msg.lat),
               !.lon = Some(msg.lon),
               !.rel_alt = Some(msg.relative_alt),
               !.amsl_alt = Some(msg.alt),
               !.last_update = timestamp]

update_from_position(vs, msg, timestamp) ==
    [vs EXCEPT !.lat = Some(msg.lat),
               !.lon = Some(msg.lon),
               !.rel_alt = Some(msg.relative_alt),
               !.amsl_alt = Some(msg.alt),
               !.vx = Some(msg.vx),
               !.vy = Some(msg.vy),
               !.vz = Some(msg.vz),
               !.heading = IF msg.hdg = HdgInvalid THEN vs.heading
                           ELSE Some(msg.hdg % 36000),
               !.last_update = timestamp]

update_from_heartbeat(vs, msg, timestamp) ==
    [vs EXCEPT !.mode = msg.mode,
               !.armed = msg.armed,
               !.last_heartbeat = timestamp]

is_position_fresh(vs, t, timeout) ==
    ~IsNone(vs.lat) /\ (t - vs.last_update) <= timeout

is_heartbeat_fresh(vs, t, timeout) ==
    vs.last_heartbeat > 0 /\ (t - vs.last_heartbeat) <= timeout

RECURSIVE ISqrtIn(_, _, _)
\* bisection: the r in lo..hi with r*r <= n < (r+1)*(r+1); the bounds of each
\* step are bound as values, so that no step evaluates them again
ISqrtIn(n, lo, hi) ==
    IF lo >= hi THEN lo
    ELSE CHOOSE r \in { IF b[2] * b[2] <= n THEN ISqrtIn(n, b[2], b[3])
                                             ELSE ISqrtIn(n, b[1], b[2] - 1)
                        : b \in {<<lo, (lo + hi + 1) \div 2, hi>>} } : TRUE

\* floor of the square root
ISqrt(n) == ISqrtIn(n, 0, Min2(n, 46340))

\* math.hypot, rounded down to the fixed-point unit
Hypot(a, b) ==
    IF a = 0 THEN Abs(b) ELSE IF b = 0 THEN Abs(a) ELSE ISqrt(a * a + b * b)

speed(vs) ==
    IF IsNone(vs.vx) \/ IsNone(vs.vy) THEN NoneVal
    ELSE Some(Hypot(Val(vs.vx), Val(vs.vy)))

----------------------------------------------------------------------------
(* Parameter lookup and speed-profile resolution *)

\* dict.get(k): <<>> when the key is absent
DictGet(d, k) == IF k \in DOMAIN d THEN Some(d[k]) ELSE NoneVal

RECURSIVE FirstParam(_, _, _)
\* the loop of _get_vehicle_param over the de-duplicated candidate keys
FirstParam(store, cands, name) ==
    IF cands = <<>> THEN NoneVal
    ELSE LET params == DictGet(store, Head(cands))
         IN  IF IsNone(params) \/ DOMAIN Val(params) = {}
             THEN FirstParam(store, Tail(cands), name)
             ELSE IF name \in DOMAIN Val(params)
                  THEN Some(Val(params)[name])
                  ELSE FirstParam(store, Tail(cands), name)

RECURSIVE Dedup(_, _)
\* the "seen" set of _get_vehicle_param: keep the first occurrence of a key
Dedup(s, seen) ==
    IF s = <<>> THEN <<>>
    ELSE IF Head(s) \in seen THEN Dedup(Tail(s), seen)
         ELSE <<Head(s)>> \o Dedup(Tail(s), seen \cup {Head(s)})

\* the lookup that falls back to component 0 before component 1
get_vehicle_param_zero_first(store, sysid, compid, name) ==
    IF IsNone(sysid) THEN NoneVal
    ELSE LET own   == IF IsNone(compid) THEN <<>> ELSE << <<Val(sysid), Val(compid)>> >>
             cands == own \o << <<Val(sysid), 0>>, <<Val(sysid), 1>> >>
         IN  FirstParam(store, Dedup(cands, {}), name)

\* sysid, compid: Optional; result Optional (the default is None)
get_vehicle_param(store, sysid, compid, name) ==
    IF IsNone(sysid) THEN NoneVal
    ELSE LET own   == IF IsNone(compid) THEN <<>> ELSE << <<Val(sysid), Val(compid)>> >>
             cands == own \o << <<Val(sysid), 1>>, <<Val(sysid), 0>> >>
         IN  FirstParam(store, Dedup(cands, {}), name)

get_follower_param(e, store, name) ==
    get_vehicle_param(store, Some(e.catch_settings.follower_sysid),
                      Some(e.catch_settings.follower_compid), name)

\* the mutation of profile_candidates that gives the custom profile the
\* candidates of max
profile_candidates_for_custom(profile) ==
    CASE profile = "cruise" -> << [name |-> "AIRSPEED_CRUISE", scale |-> 100],
                                  [name |-> "AIRSPEED_TRIM", scale |-> 100],
                                  [name |-> "TRIM_ARSPD_CM", scale |-> 1] >>
      [] OTHER -> << [name |-> "AIRSPEED_MAX", scale |-> 100],
                     [name |-> "ARSPD_FBW_MAX", scale |-> 1] >>

\* candidate parameters of a profile: name and scale (in hundredths)
profile_candidates(profile) ==
    CASE profile = "cruise" -> << [name |-> "AIRSPEED_CRUISE", scale |-> 100],
                                  [name |-> "AIRSPEED_TRIM", scale |-> 100],
                                  [name |-> "TRIM_ARSPD_CM", scale |-> 1] >>
      [] profile = "max"    -> << [name |-> "AIRSPEED_MAX", scale |-> 100],
                                  [name |-> "ARSPD_FBW_MAX", scale |-> 1] >>
      [] OTHER -> <<>>

\* float(param_value) * scale is usable: finite and > 0
Usable(pv, scale) == pv.kind = "num" /\ pv.v * scale > 0

RECURSIVE LastCandidate(_, _, _)
\* the mutation of FirstCandidate in which a later usable candidate wins
LastCandidate(e, store, cands) ==
    IF cands = <<>> THEN NoneVal
    ELSE LET c    == Head(cands)
             pv   == get_follower_param(e, store, c.name)
             rest == LastCandidate(e, store, Tail(cands))
         IN  IF ~IsNone(rest) THEN rest
             ELSE IF IsNone(pv) THEN NoneVal
             ELSE IF ~Usable(Val(pv), c.scale) THEN NoneVal
             ELSE Some([value |-> Val(pv).v * c.scale, source |-> c.name])

RECURSIVE FirstCandidate(_, _, _)
\* the candidate loop of _resolve_speed_selection: <<>> or <<[value, source]>>
FirstCandidate(e, store, cands) ==
    IF cands = <<>> THEN NoneVal
    ELSE LET c  == Head(cands)
             pv == get_follower_param(e, store, c.name)
         IN  IF IsNone(pv) THEN FirstCandidate(e, store, Tail(cands))
             ELSE IF ~Usable(Val(pv), c.scale) THEN FirstCandidate(e, store, Tail(cands))
             ELSE Some([value |-> Val(pv).v * c.scale, source |-> c.name])

\* the mutation of CandidateNames that names the first candidate only
CandidateNamesFirst(cands) == IF cands = <<>> THEN <<>> ELSE <<Head(cands).name>>

RECURSIVE CandidateNames(_)
CandidateNames(cands) ==
    IF cands = <<>> THEN <<>>
    ELSE <<Head(cands).name>> \o CandidateNames(Tail(cands))

ZeroWarning == <<"non-positive; minimum of 0.1 m/s">>

\* the mutation of resolve_speed_selection that keeps a negative configured
\* speed
resolve_speed_selection_unfloored(e, store) ==
    LET p0      == Lower(e.catch_settings.speed_profile)
        profile == IF p0 \in {"custom", "cruise", "max"} THEN p0 ELSE "custom"
        cands   == profile_candidates(profile)
        found   == FirstCandidate(e, store, cands)
        useCand == cands # <<>> /\ ~IsNone(found)
        fb      == cands # <<>> /\ IsNone(found)
        value   == IF useCand THEN Val(found).value ELSE e.catch_settings.follower_speed
        w1      == IF fb THEN <<"parameters unavailable; checked">> \o CandidateNames(cands)
                   ELSE <<>>
    IN  [profile |-> profile, value |-> value,
         source |-> IF useCand THEN Val(found).source ELSE "follower_speed",
         forced_velocity |-> (profile = "max"), fallback |-> fb,
         warning |-> IF value <= 0 THEN w1 \o ZeroWarning ELSE w1]

resolve_speed_selection(e, store) ==
    LET p0      == Lower(e.catch_settings.speed_profile)
        profile == IF p0 \in {"custom", "cruise", "max"} THEN p0 ELSE "custom"
        dflt    == Max2(e.catch_settings.follower_speed, 0)
        cands   == profile_candidates(profile)
        found   == FirstCandidate(e, store, cands)
        useCand == cands # <<>> /\ ~IsNone(found)
        fb      == cands # <<>> /\ IsNone(found)
        value   == IF useCand THEN Val(found).value ELSE dflt
        source  == IF useCand THEN Val(found).source ELSE "follower_speed"
        w1      == IF fb THEN <<"parameters unavailable; checked">> \o CandidateNames(cands)
                   ELSE <<>>
        warning == IF value <= 0 THEN w1 \o ZeroWarning ELSE w1
    IN  [profile |-> profile, value |-> value, source |-> source,
         forced_velocity |-> (profile = "max"), fallback |-> fb, warning |-> warning]

\* previous: Optional[SpeedSelection]; 0.1 m/s = 10 cm/s
speed_selection_changed(previous, current) ==
    \/ IsNone(previous)
    \/ /\ ~IsNone(previous)
       /\ \/ Val(previous).profile # current.profile
          \/ Val(previous).source # current.source
          \/ Val(previous).forced_velocity # current.forced_velocity
          \/ Val(previous).fallback # current.fallback
          \/ Abs(Val(previous).value - current.value) > 10

\* returns the engine; the selection is e.last_speed_selection afterwards
update_speed_selection(e, store) ==
    LET selection == resolve_speed_selection(e, store)
        changed   == speed_selection_changed(e.last_speed_selection, selection)
    IN  [e EXCEPT !.last_speed_selection = Some(selection),
                  !.last_speed_command_value = IF changed THEN NoneVal ELSE @,
                  !.last_speed_profile_command = IF changed THEN NoneVal ELSE @,
                  !.last_speed_source_command = IF changed THEN NoneVal ELSE @]

SpeedMsg(value) == [type |-> "DO_CHANGE_SPEED", value |-> value]

\* mpstate.foreach_mav(sysid, compid, sender): the message goes out, or the
\* link's write raises and the exception leaves the handler (e.raised)
foreach_mav(e, msg) ==
    IF e.transport = "raises" THEN [e EXCEPT !.raised = TRUE]
    ELSE [e EXCEPT !.sent = Append(@, msg)]

\* 0.25 m/s = 25 cm/s
maybe_send_speed_command(e, selection) ==
    IF e.guidance_state # "auto" THEN e
    ELSE IF selection.value <= 0 THEN e
    ELSE IF /\ ~IsNone(e.last_speed_command_value)
            /\ Abs(Val(e.last_speed_command_value) - selection.value) < 25
            /\ e.last_speed_profile_command = Some(selection.profile)
            /\ e.last_speed_source_command = Some(selection.source)
         THEN e
    ELSE IF foreach_mav(e, SpeedMsg(selection.value)).raised
         THEN foreach_mav(e, SpeedMsg(selection.value))
    ELSE [foreach_mav(e, SpeedMsg(selection.value))
             EXCEPT !.last_speed_command_value = Some(selection.value),
                    !.last_speed_profile_command = Some(selection.profile),
                    !.last_speed_source_command = Some(selection.source)]

----------------------------------------------------------------------------
(* Target filter *)

reset_target_filter(e) == [e EXCEPT !.filtered_target = NoneVal]

\* the mutation of ClampAlpha that uses the configured coefficient as it is
ClampAlphaNone(a) == a

\* max(0.0, min(1.0, target_filter_alpha)), in hundredths
ClampAlpha(a) == Max2(0, Min2(100, a))

\* prev + alpha * (x - prev); the product is rounded toward zero
Lerp(prev, x, alpha) ==
    LET d == alpha * (x - prev)
    IN  prev + (IF d >= 0 THEN d \div 100 ELSE 0 - ((0 - d) \div 100))

\* the mutation of filter_target that smooths the first target after a reset
\* from the origin
filter_target_from_origin(e, target) ==
    LET alpha == ClampAlpha(e.catch_settings.target_filter_alpha)
        prev  == IF IsNone(e.filtered_target) THEN <<0, 0, 0>> ELSE e.filtered_target
    IN  IF alpha >= 100
        THEN [e EXCEPT !.filtered_target = target]
        ELSE [e EXCEPT !.filtered_target =
                      << Lerp(prev[1], target[1], alpha),
                         Lerp(prev[2], target[2], alpha),
                         Lerp(prev[3], target[3], alpha) >>]

\* returns the engine; the filtered target is e.filtered_target afterwards
filter_target(e, target) ==
    LET alpha == ClampAlpha(e.catch_settings.target_filter_alpha)
    IN  IF IsNone(e.filtered_target) \/ alpha >= 100
        THEN [e EXCEPT !.filtered_target = target]
        ELSE LET prev == e.filtered_target
             IN  [e EXCEPT !.filtered_target =
                      << Lerp(prev[1], target[1], alpha),
                         Lerp(prev[2], target[2], alpha),
                         Lerp(prev[3], target[3], alpha) >>]

----------------------------------------------------------------------------
(* Geometry of mp_util on the local grid *)

GpsDistance(lat1, lon1, lat2, lon2) == Hypot(lat2 - lat1, lon2 - lon1)

\* direction of the displacement (north, east), in degrees [0, 360), to the
\* nearest axis; math.atan2(0, 0) is 0
CourseDeg(north, east) ==
    IF Abs(east) > Abs(north) THEN (IF east > 0 THEN 90 ELSE 270)
    ELSE IF north < 0 THEN 180 ELSE 0

GpsBearing(lat1, lon1, lat2, lon2) == CourseDeg(lat2 - lat1, lon2 - lon1)

\* cos and sin of a multiple of 90 degrees
CosDeg(a) ==
    LET r == a % 360
    IN  IF r = 0 THEN 1 ELSE IF r = 180 THEN -1 ELSE 0

SinDeg(a) == CosDeg(a - 90)

\* <<lat, lon>> reached from (lat, lon) along the bearing over the distance
GpsNewpos(lat, lon, bearing, distance) ==
    << lat + CosDeg(bearing) * distance, lon + SinDeg(bearing) * distance >>

----------------------------------------------------------------------------
(* The intercept solver *)

Leader(e) == e.vehicle_states[<<e.catch_settings.leader_sysid, e.catch_settings.leader_compid>>]

Follower(e) == e.vehicle_states[<<e.catch_settings.follower_sysid, e.catch_settings.follower_compid>>]

AllowedModes == {"GUIDED", "GUIDED_NOGPS", "POSHOLD", "LOITER"}

blocked_reason_mode_first(e, t) ==
    LET L  == Leader(e)
        F  == Follower(e)
        cs == e.catch_settings
    IN  IF ~is_heartbeat_fresh(L, t, cs.heartbeat_timeout)
            THEN "Waiting for leader heartbeat"
        ELSE IF ~is_heartbeat_fresh(F, t, cs.heartbeat_timeout)
            THEN "Waiting for follower heartbeat"
        ELSE IF ~is_position_fresh(L, t, cs.position_timeout)
            THEN "Waiting for leader position updates"
        ELSE IF ~is_position_fresh(F, t, cs.position_timeout)
            THEN "Waiting for follower position updates"
        ELSE IF IsNone(L.lat) \/ IsNone(L.lon) \/ IsNone(F.lat) \/ IsNone(F.lon)
            THEN "Incomplete telemetry for intercept"
        ELSE IF Upper(F.mode) \notin AllowedModes
            THEN "Follower mode " \o F.mode \o " - waiting for GUIDED/LOITER"
        ELSE IF ~F.armed
            THEN "Follower disarmed - waiting for ARM"
        ELSE ""

\* the precondition chain of compute_intercept: the status text of the first
\* failing check (its dash written in ASCII), or "" when all pass
blocked_reason(e, t) ==
    LET L  == Leader(e)
        F  == Follower(e)
        cs == e.catch_settings
    IN  IF ~is_heartbeat_fresh(L, t, cs.heartbeat_timeout)
            THEN "Waiting for leader heartbeat"
        ELSE IF ~is_heartbeat_fresh(F, t, cs.heartbeat_timeout)
            THEN "Waiting for follower heartbeat"
        ELSE IF ~is_position_fresh(L, t, cs.position_timeout)
            THEN "Waiting for leader position updates"
        ELSE IF ~is_position_fresh(F, t, cs.position_timeout)
            THEN "Waiting for follower position updates"
        ELSE IF IsNone(L.lat) \/ IsNone(L.lon) \/ IsNone(F.lat) \/ IsNone(F.lon)
            THEN "Incomplete telemetry for intercept"
        ELSE IF ~F.armed
            THEN "Follower disarmed - waiting for ARM"
        ELSE IF Upper(F.mode) \notin AllowedModes
            THEN "Follower mode " \o F.mode \o " - waiting for GUIDED/LOITER"
        ELSE ""

\* the mutation of follower_speed_step that solves with the selected speed
\* even when the follower's speed is measured
follower_speed_step_selected(e, speed_selection) ==
    LET actual == speed(Follower(e))
    IN  IF ~IsNone(actual)
        THEN [e |-> [e EXCEPT !.follower_speed_smoothed = actual,
                              !.speed_telemetry_warning_sent = FALSE],
              follower_speed |-> Max2(speed_selection.value, 10),
              source |-> "telemetry",
              log |-> <<>>]
        ELSE [e |-> [e EXCEPT !.speed_telemetry_warning_sent = TRUE],
              follower_speed |-> Max2(speed_selection.value, 10),
              source |-> "fallback",
              log |-> <<>>]

\* the mutation of follower_speed_step that posts its notification on every
\* solve in fallback
follower_speed_step_repeating(e, speed_selection) ==
    LET actual == speed(Follower(e))
    IN  IF ~IsNone(actual)
        THEN LET sm == IF IsNone(e.follower_speed_smoothed) THEN Val(actual)
                       ELSE (35 * Val(actual) + 65 * Val(e.follower_speed_smoothed)) \div 100
             IN  [e |-> [e EXCEPT !.follower_speed_smoothed = Some(sm),
                                  !.speed_telemetry_warning_sent = FALSE],
                  follower_speed |-> Max2(sm, 10),
                  source |-> "telemetry",
                  log |-> IF e.speed_telemetry_warning_sent
                          THEN <<"Follower speed telemetry restored">> ELSE <<>>]
        ELSE [e |-> [e EXCEPT !.speed_telemetry_warning_sent = TRUE],
              follower_speed |-> Max2(speed_selection.value, 10),
              source |-> "fallback",
              log |-> <<"Follower speed telemetry unavailable">>]

\* the follower-speed step of compute_intercept (0.35 / 0.65 moving average,
\* floor of 0.1 m/s, edge-triggered telemetry warning); log holds the
\* notifications posted to the UI log by the step
follower_speed_step(e, speed_selection) ==
    LET actual == speed(Follower(e))
    IN  IF ~IsNone(actual)
        THEN LET sm == IF IsNone(e.follower_speed_smoothed) THEN Val(actual)
                       ELSE (35 * Val(actual) + 65 * Val(e.follower_speed_smoothed)) \div 100
             IN  [e |-> [e EXCEPT !.follower_speed_smoothed = Some(sm),
                                  !.speed_telemetry_warning_sent = FALSE],
                  follower_speed |-> Max2(sm, 10),
                  source |-> "telemetry",
                  log |-> IF e.speed_telemetry_warning_sent
                          THEN <<"Follower speed telemetry restored">> ELSE <<>>]
        ELSE [e |-> [e EXCEPT !.speed_telemetry_warning_sent = TRUE],
              follower_speed |-> Max2(speed_selection.value, 10),
              source |-> "fallback",
              log |-> IF ~e.speed_telemetry_warning_sent
                      THEN <<"Follower speed telemetry unavailable">> ELSE <<>>]

\* the mutation of closing_rate that clamps against the configured minimum
\* without setting the flag
closing_rate_unflagged(closing_rate_raw, cs) ==
    [closing_rate |-> Max2(closing_rate_raw, Max2(cs.min_closing, 10)),
     closing_limited |-> FALSE]

\* lines 1252-1258: the closing rate the solve divides by, clamped from
\* below by max(min_closing, 0.1 m/s), and whether the clamp acted
closing_rate(closing_rate_raw, cs) ==
    LET min_closing == Max2(cs.min_closing, 10)
    IN  IF closing_rate_raw < min_closing
        THEN [closing_rate |-> min_closing, closing_limited |-> TRUE]
        ELSE [closing_rate |-> closing_rate_raw, closing_limited |-> FALSE]

\* the mutation of time_to_go that leaves the look-ahead cap out
time_to_go_uncapped(rng, rate, cs) == (rng * 10000) \div rate

\* line 1259: min(rng / closing_rate, max_lookahead), in centiseconds
time_to_go(rng, rate, cs) == Min2((rng * 10000) \div rate, cs.max_lookahead)

\* the mutation of target_alt that always reads the AMSL altitude
target_alt_amsl(L, cs) ==
    (IF IsNone(L.amsl_alt) THEN 0 ELSE Val(L.amsl_alt)) + cs.target_alt_offset

\* lines 1267-1271: the leader's altitude in the configured frame (0 when
\* never reported) plus target_alt_offset
target_alt(L, cs) ==
    LET leader_alt == IF cs.use_relative_alt
                      THEN (IF IsNone(L.rel_alt) THEN 0 ELSE Val(L.rel_alt))
                      ELSE (IF IsNone(L.amsl_alt) THEN 0 ELSE Val(L.amsl_alt))
    IN  leader_alt + cs.target_alt_offset

\* the geometry of compute_intercept once the preconditions and the range
\* check have passed; rng in metres, speeds in cm/s, times in centiseconds
intercept_solution(e, follower_speed) ==
    LET L   == Leader(e)
        F   == Follower(e)
        cs  == e.catch_settings
        rng == GpsDistance(Val(F.lat), Val(F.lon), Val(L.lat), Val(L.lon))
        bearing_to_leader == GpsBearing(Val(F.lat), Val(F.lon), Val(L.lat), Val(L.lon))
        ls  == speed(L)
        leader_speed == IF IsNone(ls) THEN 0 ELSE Val(ls)
        leader_course == IF leader_speed > 1 /\ ~IsNone(L.vx) /\ ~IsNone(L.vy)
                         THEN CourseDeg(Val(L.vx), Val(L.vy))
                         ELSE bearing_to_leader
        closing_projection == leader_speed * CosDeg(bearing_to_leader - leader_course)
        closing_rate_raw == follower_speed - closing_projection
        cr  == closing_rate(closing_rate_raw, cs)
        ttg == time_to_go(rng, cr.closing_rate, cs)
        offset_distance == (leader_speed * ttg) \div 10000
        predicted == GpsNewpos(Val(L.lat), Val(L.lon), leader_course, offset_distance)
    IN  [target |-> <<predicted[1], predicted[2], target_alt(L, cs)>>,
         time_to_go |-> ttg,
         closing_rate |-> cr.closing_rate,
         closing_limited |-> cr.closing_limited]

\* returns [e, status, result, log, source]: result is <<>> (blocked) or
\* <<solution>>, status the text handed to _set_system_status (for a
\* solution, the fixed head of the text, without the figures that follow
\* it), log the notifications posted to the UI log, source the origin of the
\* follower speed ("" when a precondition failed before one was resolved)
compute_intercept(e, t, speed_selection) ==
    LET reason == blocked_reason(e, t)
    IN  IF reason # ""
        THEN [e |-> e, status |-> reason, result |-> NoneVal, log |-> <<>>, source |-> ""]
        ELSE LET st  == follower_speed_step(e, speed_selection)
                 F   == Follower(e)
                 L   == Leader(e)
                 rng == GpsDistance(Val(F.lat), Val(F.lon), Val(L.lat), Val(L.lon))
             IN  IF rng < e.catch_settings.min_distance
                 THEN [e |-> st.e, status |-> "Follower within minimum distance - holding position",
                       result |-> NoneVal, log |-> st.log, source |-> st.source]
                 ELSE [e |-> st.e, status |-> "Intercepting leader",
                       result |-> Some(intercept_solution(st.e, st.follower_speed)),
                       log |-> st.log, source |-> st.source]

----------------------------------------------------------------------------
(* Outbound position target *)

\* _send_target computing the vector under every profile
velocity_vector_any_profile(e, target, speed_selection) ==
    LET F  == Follower(e)
        follower_alt == IF e.catch_settings.use_relative_alt THEN F.rel_alt ELSE F.amsl_alt
    IN  IF ~(speed_selection.value > 0) THEN NoneVal
        ELSE IF IsNone(F.lat) \/ IsNone(F.lon) \/ IsNone(follower_alt) THEN NoneVal
        ELSE LET bearing == GpsBearing(Val(F.lat), Val(F.lon), target[1], target[2])
                 hd      == 100 * GpsDistance(Val(F.lat), Val(F.lon), target[1], target[2])
                 alt_error == target[3] - Val(follower_alt)
                 d3      == Hypot(hd, alt_error)
             IN  IF d3 > 0
                 THEN Some(<< (speed_selection.value * hd * CosDeg(bearing)) \div d3,
                              (speed_selection.value * hd * SinDeg(bearing)) \div d3,
                              (0 - speed_selection.value * alt_error) \div d3 >>)
                 ELSE NoneVal

\* the velocity vector of _send_target: <<>> when no valid vector results;
\* distances in centimetres, so distance_3d > 1e-3 m is d3 > 0
velocity_vector(e, target, speed_selection) ==
    LET F  == Follower(e)
        follower_alt == IF e.catch_settings.use_relative_alt THEN F.rel_alt ELSE F.amsl_alt
    IN  IF ~(speed_selection.forced_velocity /\ speed_selection.value > 0) THEN NoneVal
        ELSE IF IsNone(F.lat) \/ IsNone(F.lon) \/ IsNone(follower_alt) THEN NoneVal
        ELSE LET bearing == GpsBearing(Val(F.lat), Val(F.lon), target[1], target[2])
                 hd      == 100 * GpsDistance(Val(F.lat), Val(F.lon), target[1], target[2])
                 alt_error == target[3] - Val(follower_alt)
                 d3      == Hypot(hd, alt_error)
             IN  IF d3 > 0
                 THEN Some(<< (speed_selection.value * hd * CosDeg(bearing)) \div d3,
                              (speed_selection.value * hd * SinDeg(bearing)) \div d3,
                              (0 - speed_selection.value * alt_error) \div d3 >>)
                 ELSE NoneVal

\* the message of sender (lines 1340-1358); int(lat * 1.0e7) and int(lon * 1.0e7)
\* keep apart any two points of the grid, whose unit is far above 1e-7 degree
PositionMsg(e, target, vel) ==
    [type |-> "SET_POSITION_TARGET_GLOBAL_INT",
     frame |-> IF e.catch_settings.use_relative_alt THEN "GLOBAL_RELATIVE_ALT_INT"
               ELSE "GLOBAL_INT",
     lat |-> target[1], lon |-> target[2], alt |-> target[3],
     velocity_ignored |-> IsNone(vel),
     velocity |-> IF IsNone(vel) THEN <<0, 0, 0>> ELSE Val(vel)]

\* the console line of a _send_target that warns on every emission without a vector
override_log_every(e, speed_selection, velocity_valid) ==
    IF speed_selection.forced_velocity /\ ~velocity_valid
    THEN <<"Velocity override skipped - follower telemetry incomplete">>
    ELSE IF e.velocity_override_warning_sent /\ velocity_valid
         THEN <<"Velocity override restored">>
         ELSE <<>>

\* the log line _send_target posts to the console (lines 1328-1338), <<>> when none
override_log(e, speed_selection, velocity_valid) ==
    IF speed_selection.forced_velocity /\ ~velocity_valid
    THEN IF ~e.velocity_override_warning_sent
         THEN <<"Velocity override skipped - follower telemetry incomplete">>
         ELSE <<>>
    ELSE IF e.velocity_override_warning_sent /\ velocity_valid
         THEN <<"Velocity override restored">>
         ELSE <<>>

send_target(e, target, speed_selection) ==
    LET vel == velocity_vector(e, target, speed_selection)
        velocity_valid == ~IsNone(vel)
    IN  foreach_mav(
            [e EXCEPT !.log = @ \o override_log(e, speed_selection, velocity_valid),
                      !.velocity_override_warning_sent =
                          (speed_selection.forced_velocity /\ ~velocity_valid)],
            PositionMsg(e, target, vel))

----------------------------------------------------------------------------
(* Guidance state machine and operator commands *)

\* a sink that answers a failed send by pausing the guidance
post_update_pausing(e, name) ==
    CASE e.ui = "active" -> e
      [] e.ui = "broken" -> [e EXCEPT !.guidance_state = "hold"]
      [] OTHER -> e

\* ui.post_update (lines 89-90, 117-123): the active UI sends on its pipe, a
\* broken pipe raises inside send and is caught, the null sink passes; the
\* engine is what it was in each case
post_update(e, name) ==
    CASE e.ui = "active" -> e
      [] e.ui = "broken" -> e
      [] OTHER -> e

\* _update_map_target: without a map there is nothing to draw on
update_map_target(e) ==
    IF ~e.mpstate_map THEN e
    ELSE [e EXCEPT !.map_target_added = TRUE]

\* _clear_map_target: the marker is gone, with or without a map
clear_map_target(e) ==
    [e EXCEPT !.map_target_added = FALSE]

ensure_state(e, key) ==
    IF key \in DOMAIN e.vehicle_states THEN e
    ELSE [e EXCEPT !.vehicle_states =
              [k \in (DOMAIN e.vehicle_states) \cup {key} |->
                  IF k = key THEN NewVehicleState ELSE e.vehicle_states[k]]]

\* the mutation of refresh_sysids that starts the follower-speed average anew
refresh_sysids_reseed(e) ==
    LET cs == e.catch_settings
    IN  [ensure_state(ensure_state(e, <<cs.leader_sysid, cs.leader_compid>>),
                      <<cs.follower_sysid, cs.follower_compid>>)
            EXCEPT !.follower_speed_smoothed = NoneVal]

\* self.leader / self.follower are looked up through the settings (Leader,
\* Follower); refreshing them creates the records when missing
refresh_sysids(e) ==
    LET cs == e.catch_settings
    IN  ensure_state(ensure_state(e, <<cs.leader_sysid, cs.leader_compid>>),
                     <<cs.follower_sysid, cs.follower_compid>>)

clear_speed_command_keep(e) == e

clear_speed_command(e) ==
    [e EXCEPT !.last_speed_command_value = NoneVal,
              !.last_speed_profile_command = NoneVal,
              !.last_speed_source_command = NoneVal]

set_guidance_state_keep_filter(e, state, store) ==
    IF state \notin {"auto", "hold"} THEN e
    ELSE LET e1 == [e EXCEPT !.guidance_state = state]
         IN  IF state = "hold"
             THEN clear_speed_command(e1)
             ELSE update_speed_selection(e1, store)

\* the transition that resets the filter only on the way to AUTO
set_guidance_state_reset_on_auto(e, state, store) ==
    IF state \notin {"auto", "hold"} THEN e
    ELSE LET e1 == [e EXCEPT !.guidance_state = state]
         IN  IF state = "hold"
             THEN clear_speed_command(clear_map_target(post_update(e1, "status")))
             ELSE update_speed_selection(
                      post_update(IF state # e.guidance_state
                                  THEN reset_target_filter(e1) ELSE e1, "status"), store)

set_guidance_state(e, state, store) ==
    IF state \notin {"auto", "hold"} THEN e
    ELSE LET e1 == [e EXCEPT !.guidance_state = state]
             e2 == IF state # e.guidance_state THEN reset_target_filter(e1) ELSE e1
         IN  IF state = "hold"
             THEN clear_speed_command(clear_map_target(post_update(e2, "status")))
             ELSE update_speed_selection(post_update(e2, "status"), store)

\* a numeric argument as typed: float(text) succeeds with v, or raises
NumTok(v) == [ok |-> TRUE, v |-> v]

BadTok == [ok |-> FALSE, v |-> 0]

handle_manual_target_same_mode(e, params, store) ==
    IF Len(params) < 2 THEN e
    ELSE IF ~params[1].ok \/ ~params[2].ok \/ (Len(params) >= 3 /\ ~params[3].ok) THEN e
    ELSE reset_target_filter(
             [e EXCEPT !.manual_target = <<params[1].v, params[2].v, params[3].v>>])

handle_manual_target_keep_filter(e, params, store) ==
    IF Len(params) < 2 THEN e
    ELSE IF ~params[1].ok \/ ~params[2].ok \/ (Len(params) >= 3 /\ ~params[3].ok) THEN e
    ELSE set_guidance_state(
             [e EXCEPT !.manual_target = <<params[1].v, params[2].v, params[3].v>>],
             "auto", store)

\* params: the tokens after "goto"; altitudes default to the leader's
handle_manual_target(e, params, store) ==
    IF Len(params) < 2 THEN e
    ELSE IF ~params[1].ok \/ ~params[2].ok \/ (Len(params) >= 3 /\ ~params[3].ok) THEN e
    ELSE LET L == Leader(e)
             default_alt == IF e.catch_settings.use_relative_alt THEN L.rel_alt
                            ELSE L.amsl_alt
             alt == IF Len(params) >= 3 THEN params[3].v
                    ELSE IF IsNone(default_alt) THEN 0 ELSE Val(default_alt)
             target == <<params[1].v, params[2].v, alt>>
             e1 == [e EXCEPT !.manual_target = target]
             e2 == set_guidance_state(e1, "auto", store)
         IN  update_map_target(post_update(reset_target_filter(e2), "target"))

\* the mutation of _on_altitude_mode_updated that keeps the manual target
on_altitude_mode_updated_keep(e, changed) == e

on_altitude_mode_updated(e, changed) ==
    IF changed /\ ~IsNone(e.manual_target)
    THEN clear_map_target(post_update([e EXCEPT !.manual_target = NoneVal], "target"))
    ELSE e

handle_altitude_mode(e, mode) ==
    LET desired == Lower(mode)
    IN  IF desired \notin {"relative", "absolute"} THEN e
        ELSE LET use_relative == (desired = "relative")
             IN  IF use_relative = e.catch_settings.use_relative_alt
                 THEN on_altitude_mode_updated(e, FALSE)
                 ELSE on_altitude_mode_updated(
                          [e EXCEPT !.catch_settings.use_relative_alt = use_relative], TRUE)

\* "catchleader clear" and the UI's clear button
clear_manual_target(e) ==
    reset_target_filter(
        clear_map_target(post_update([e EXCEPT !.manual_target = NoneVal], "target")))

ModeMsg == [type |-> "SET_MODE", custom_mode |-> 5]

set_follower_fbwa(e) ==
    [e EXCEPT !.sent = Append(@, ModeMsg)]

\* "catchleader set <name> <value>": the settings store takes the value,
\* then the module reacts
cmd_set(e, name, value, store) ==
    LET previous_mode  == e.catch_settings.use_relative_alt
        previous_alpha == e.catch_settings.target_filter_alpha
        e1 == [e EXCEPT !.catch_settings[name] = value]
        e2 == refresh_sysids(update_speed_selection(e1, store))
        changed == previous_mode # e2.catch_settings.use_relative_alt
        e3 == on_altitude_mode_updated(e2, changed)
    IN  IF e3.catch_settings.target_filter_alpha # previous_alpha
        THEN reset_target_filter(e3) ELSE e3

\* params: <<profile>> or <<profile, value token>>
handle_speed_command(e, params, store) ==
    IF params = <<>> THEN e
    ELSE LET profile == Lower(params[1])
         IN  IF profile \notin {"cruise", "max", "custom"} THEN e
             ELSE IF profile = "custom" /\ Len(params) >= 2 /\ ~params[2].ok THEN e
             ELSE IF profile = "custom" /\ Len(params) >= 2 /\ params[2].v <= 0 THEN e
             ELSE LET e1 == IF profile = "custom" /\ Len(params) >= 2
                            THEN [e EXCEPT !.catch_settings.follower_speed = params[2].v]
                            ELSE e
                      e2 == [e1 EXCEPT !.catch_settings.speed_profile = profile]
                  IN  update_speed_selection(e2, store)

handle_ui_speed_profile(e, profile, store) ==
    LET desired == Lower(profile)
    IN  IF desired \notin {"custom", "cruise", "max"} THEN e
        ELSE update_speed_selection(
                 [e EXCEPT !.catch_settings.speed_profile = desired], store)

handle_ui_custom_speed(e, tok, store) ==
    IF ~tok.ok THEN e
    ELSE IF tok.v <= 0 THEN e
    ELSE update_speed_selection(
             [e EXCEPT !.catch_settings.follower_speed = tok.v], store)

handle_ui_target_filter_alpha_keep(e, tok) ==
    IF ~tok.ok THEN e
    ELSE [e EXCEPT !.catch_settings.target_filter_alpha = ClampAlpha(tok.v)]

\* math.isclose(previous, clamped, abs_tol=5.0e-4) on hundredths is equality
handle_ui_target_filter_alpha(e, tok) ==
    IF ~tok.ok THEN e
    ELSE LET clamped == ClampAlpha(tok.v)
         IN  IF e.catch_settings.target_filter_alpha = clamped THEN e
             ELSE reset_target_filter(
                      [e EXCEPT !.catch_settings.target_filter_alpha = clamped])

handle_ui_selection(e, key, leader) ==
    refresh_sysids(
        IF leader
        THEN [e EXCEPT !.catch_settings.leader_sysid = key[1],
                       !.catch_settings.leader_compid = key[2]]
        ELSE [e EXCEPT !.catch_settings.follower_sysid = key[1],
                       !.catch_settings.follower_compid = key[2]])

\* one iteration of the loop of _process_ui_commands
process_ui_command(e, payload, store) ==
    CASE payload.cmd \in {"catch", "resume"} ->
            reset_target_filter(
                clear_map_target(
                    set_guidance_state([e EXCEPT !.manual_target = NoneVal], "auto", store)))
      [] payload.cmd = "hold" -> set_guidance_state(e, "hold", store)
      [] payload.cmd = "clear" -> clear_manual_target(e)
      [] payload.cmd = "fbwa" -> set_follower_fbwa(e)
      [] payload.cmd = "select_leader" -> handle_ui_selection(e, payload.arg, TRUE)
      [] payload.cmd = "select_follower" -> handle_ui_selection(e, payload.arg, FALSE)
      [] payload.cmd = "alt_mode" -> handle_altitude_mode(e, payload.arg)
      [] payload.cmd = "speed_profile" -> handle_ui_speed_profile(e, payload.arg, store)
      [] payload.cmd = "custom_speed" -> handle_ui_custom_speed(e, payload.arg, store)
      [] payload.cmd = "target_filter_alpha" -> handle_ui_target_filter_alpha(e, payload.arg)
      [] payload.cmd = "ui_closed" -> [e EXCEPT !.ui = "null"]
      [] OTHER -> e

guidance_paused_never(e) == FALSE

\* idle_task, line 985: the tick does nothing unless the mode is AUTO
guidance_paused(e) == e.guidance_state # "auto"

pacing_pending_never(e, t) == FALSE

\* idle_task, line 989: the pacing interval has not elapsed since last_sent
pacing_pending(e, t) == t - e.last_sent < e.catch_settings.update_period

on_blocked_keep(e) == e

\* a blocked solve that also pushes the next attempt one period away
on_blocked_backoff(e) ==
    reset_target_filter(
        clear_map_target([e EXCEPT !.last_sent = @ + e.catch_settings.update_period]))

\* idle_task, lines 999-1002: a blocked solve sends nothing
on_blocked(e) == reset_target_filter(clear_map_target(e))

\* idle_task, line 1007, unless _maybe_send_speed_command raised
tick_position(e, sel) ==
    IF e.raised THEN e ELSE send_target(e, e.filtered_target, sel)

\* idle_task, lines 1008-1026, unless _send_target raised
tick_done(e, t) ==
    IF e.raised THEN e
    ELSE update_map_target(post_update([e EXCEPT !.last_sent = t], "status"))

\* idle_task, lines 1005-1026: filter, speed command, position target,
\* last_sent, then the display
\* (each intermediate engine is bound as a value before the next call reads it)
tick_emit(e, target, sel, t) ==
    CHOOSE r \in { tick_done(e5, t) :
                     e5 \in { tick_position(e4, sel) :
                                e4 \in { maybe_send_speed_command(e3, sel) :
                                           e3 \in {filter_target(e, target)} } } } : TRUE

\* idle_task, lines 993-998: the manual target, or the solver's answer
tick_target(e, t, sel) ==
    IF ~IsNone(e.manual_target)
    THEN [e |-> e, result |-> Some([target |-> e.manual_target])]
    ELSE compute_intercept(e, t, sel)

\* idle_task, lines 999-1008, on the answer ci
tick_answer(ci, sel, t) ==
    IF IsNone(ci.result) THEN on_blocked(ci.e)
    ELSE tick_emit(ci.e, Val(ci.result).target, sel, t)

\* idle_task, lines 993-1008, on the engine left by _update_speed_selection
tick_selected(e, t) ==
    CHOOSE r \in { tick_answer(ci, Val(e.last_speed_selection), t) :
                     ci \in {tick_target(e, t, Val(e.last_speed_selection))} } : TRUE

\* idle_task after _process_ui_commands: the guidance evaluation at time t
guidance_tick(e, t, store) ==
    IF guidance_paused(e) THEN e
    ELSE IF pacing_pending(e, t) THEN e
    ELSE CHOOSE r \in { tick_selected(e1, t) : e1 \in {update_speed_selection(e, store)} } : TRUE

\* mavlink_packet: msg.src is the (sysid, compid) of the sender
mavlink_packet(e, msg, t) ==
    LET e1 == ensure_state(e, msg.src)
    IN  IF msg.type = "GLOBAL_POSITION_INT"
        THEN [e1 EXCEPT !.vehicle_states[msg.src] = update_from_position(@, msg, t)]
        ELSE IF msg.type = "HEARTBEAT"
        THEN [e1 EXCEPT !.vehicle_states[msg.src] = update_from_heartbeat(@, msg, t)]
        ELSE e1

----------------------------------------------------------------------------
(* The engine as a state machine *)

LeaderKey == <<1, 1>>

FollowerKey == <<2, 1>>

\* the settings in force: identities and speed as constructed, the distances,
\* rates and times as configured with "catchleader set" on the model's scale
InitSettings ==
    [leader_sysid |-> 1, leader_compid |-> 1,
     follower_sysid |-> 2, follower_compid |-> 1,
     follower_speed |-> 2000,
     speed_profile |-> "custom",
     max_lookahead |-> 2500,
     min_closing |-> 100,
     update_period |-> 1,
     target_alt_offset |-> 0,
     min_distance |-> 5,
     position_timeout |-> 1,
     heartbeat_timeout |-> 1,
     use_relative_alt |-> FALSE,
     target_filter_alpha |-> 50]

\* the same with telemetry counted fresh only at the instant it arrives
LiveSettings == [InitSettings EXCEPT !.position_timeout = 0, !.heartbeat_timeout = 0]

\* the fields of CatchLeader after __init__, before its first speed selection
NewEngine(settings, ui) ==
    [catch_settings |-> settings,
     vehicle_states |-> [k \in {<<settings.leader_sysid, settings.leader_compid>>,
                                <<settings.follower_sysid, settings.follower_compid>>}
                             |-> NewVehicleState],
     guidance_state |-> "hold",
     manual_target |-> NoneVal,
     last_sent |-> 0,
     last_speed_selection |-> NoneVal,
     last_speed_command_value |-> NoneVal,
     last_speed_profile_command |-> NoneVal,
     last_speed_source_command |-> NoneVal,
     velocity_override_warning_sent |-> FALSE,
     follower_speed_smoothed |-> NoneVal,
     speed_telemetry_warning_sent |-> FALSE,
     filtered_target |-> NoneVal,
     ui |-> ui,
     mpstate_map |-> FALSE,
     transport |-> "ok",
     raised |-> FALSE,
     map_target_added |-> FALSE,
     sent |-> <<>>,
     log |-> <<>>]

\* __init__ ends with _update_speed_selection(log_change=True)
ConstructEngine(settings, ui, store) == update_speed_selection(NewEngine(settings, ui), store)

\* the parameter store of the model: the follower reports AIRSPEED_MAX
ParamStore ==
    [k \in {FollowerKey} |-> [n \in {"AIRSPEED_MAX"} |-> [kind |-> "num", v |-> 30]]]

Op(name) == [name |-> name, params |-> <<>>]

\* eng.sent holds what the last step handed to the transport, eng.log what
\* _send_target posted to the console during it, eng.raised whether an
\* exception left the handler
Fresh(e) == [e EXCEPT !.sent = <<>>, !.log = <<>>, !.raised = FALSE]

PositionsSent(e) == SelectSeq(e.sent, LAMBDA m : m.type = "SET_POSITION_TARGET_GLOBAL_INT")

SpeedsSent(e) == SelectSeq(e.sent, LAMBDA m : m.type = "DO_CHANGE_SPEED")

\* the engine times of the last two position targets handed to the link
OnLink(l, t) == IF Len(l) < 2 THEN Append(l, t) ELSE <<l[2], t>>

\* the speed command on the link after a step that left the engine as e: none
\* once the mode is HOLD, else the one the step sent (value as sent, profile
\* and source of the selection it was sent for), else the one before
SpeedOnLink(e, s) ==
    IF e.guidance_state = "hold" THEN NoneVal
    ELSE IF SpeedsSent(e) # <<>>
    THEN Some([value |-> SpeedsSent(e)[1].value,
               profile |-> Val(e.last_speed_selection).profile,
               source |-> Val(e.last_speed_selection).source])
    ELSE s

Idle == tick_pc = "idle"

\* a CLI command or a telemetry packet handled by the main loop
Handle(e, name, params) ==
    /\ Idle
    /\ eng' = e
    /\ last_op' = [name |-> name, params |-> params]
    /\ speed_cmd' = SpeedOnLink(e, speed_cmd)
    /\ UNCHANGED <<now, mav_param_by_sysid, ui_pipe, commands, tick_pc, link, ret, notified, twin>>

AdvanceClock ==
    /\ now < MaxTime
    /\ now' = now + 1
    /\ eng' = Fresh(eng)
    /\ last_op' = Op("clock")
    /\ UNCHANGED <<mav_param_by_sysid, ui_pipe, commands, tick_pc, link, speed_cmd, ret, notified, twin>>

\* telemetry of the model
LeaderPosition(lon) ==
    [type |-> "GLOBAL_POSITION_INT", src |-> LeaderKey, lat |-> 0, lon |-> lon,
     relative_alt |-> 10, alt |-> 12, vx |-> 0, vy |-> 0, vz |-> 0, hdg |-> HdgInvalid]

FollowerPosition ==
    [type |-> "GLOBAL_POSITION_INT", src |-> FollowerKey, lat |-> 0, lon |-> 0,
     relative_alt |-> 10, alt |-> 12, vx |-> 0, vy |-> 400, vz |-> 0, hdg |-> 9000]

LeaderHeartbeat == [type |-> "HEARTBEAT", src |-> LeaderKey, mode |-> "AUTO", armed |-> TRUE]

FollowerHeartbeat(mode, armed) ==
    [type |-> "HEARTBEAT", src |-> FollowerKey, mode |-> mode, armed |-> armed]

\* leader positions of the model: 2 is inside min_distance of the follower
LeaderLons == {2, 10}

TelemetryMsgs ==
    { LeaderPosition(lon) : lon \in LeaderLons }
    \cup { FollowerPosition, LeaderHeartbeat }
    \cup { FollowerHeartbeat(hb[1], hb[2])
             : hb \in { <<"guided", TRUE>>, <<"GUIDED", FALSE>>, <<"MANUAL", TRUE>> } }

Telemetry ==
    \E msg \in TelemetryMsgs :
        Handle(mavlink_packet(Fresh(eng), msg, now), "mavlink_packet", <<>>)

\* "catchleader catch" and "catchleader resume" share one branch
CmdCatch ==
    \E cmd \in {"catch", "resume"} :
        Handle(set_guidance_state(Fresh(eng), "auto", mav_param_by_sysid), "catch", <<>>)

CmdHold == Handle(set_guidance_state(Fresh(eng), "hold", mav_param_by_sysid), "hold", <<>>)

CmdClear == Handle(clear_manual_target(Fresh(eng)), "clear", <<>>)

\* arguments of goto in the model
GotoParams == { <<NumTok(1), NumTok(12), NumTok(12)>>, <<NumTok(1), BadTok>> }

CmdGoto ==
    \E params \in GotoParams :
        Handle(handle_manual_target(Fresh(eng), params, mav_param_by_sysid), "goto", params)

CmdAltMode ==
    \E mode \in {"relative", "absolute", "agl"} :
        Handle(handle_altitude_mode(Fresh(eng), mode), "alt_mode", <<>>)

\* settings changed with "catchleader set" in the model
SetChoices == { <<"use_relative_alt", TRUE>>, <<"use_relative_alt", FALSE>> }

CmdSet ==
    \E c \in SetChoices :
        Handle(cmd_set(Fresh(eng), c[1], c[2], mav_param_by_sysid), "set", <<>>)

\* commands the UI process sends in the model
UiPayloads ==
    { [cmd |-> "catch", arg |-> ""], [cmd |-> "hold", arg |-> ""],
      [cmd |-> "clear", arg |-> ""], [cmd |-> "alt_mode", arg |-> "relative"] }

\* the UI process puts a command on its end of the pipe
UiSend ==
    /\ eng.ui = "active"
    /\ Len(ui_pipe) < MaxPipe
    /\ \E payload \in UiPayloads : ui_pipe' = Append(ui_pipe, payload)
    /\ eng' = Fresh(eng)
    /\ last_op' = Op("ui_send")
    /\ UNCHANGED <<now, mav_param_by_sysid, commands, tick_pc, link, speed_cmd, ret, notified, twin>>

\* idle_task, line 978: poll_commands drains the pipe into a list
TickBegin ==
    /\ Idle
    /\ commands' = IF eng.ui = "active" THEN ui_pipe ELSE <<>>
    /\ ui_pipe' = IF eng.ui = "active" THEN <<>> ELSE ui_pipe
    /\ tick_pc' = "ui"
    /\ eng' = Fresh(eng)
    /\ last_op' = Op("poll_commands")
    /\ UNCHANGED <<now, mav_param_by_sysid, link, speed_cmd, ret, notified, twin>>

\* idle_task, line 978: one iteration of the loop of _process_ui_commands
TickUi ==
    /\ tick_pc = "ui"
    /\ commands # <<>>
    /\ eng' = process_ui_command(eng, Head(commands), mav_param_by_sysid)
    /\ commands' = Tail(commands)
    /\ last_op' = Op("ui_" \o Head(commands).cmd)
    /\ speed_cmd' = SpeedOnLink(eng', speed_cmd)
    /\ UNCHANGED <<now, mav_param_by_sysid, ui_pipe, tick_pc, link, ret, notified, twin>>

\* idle_task, lines 979-1026: the guidance evaluation
TickEval ==
    /\ tick_pc = "ui"
    /\ commands = <<>>
    /\ eng' = guidance_tick(eng, now, mav_param_by_sysid)
    /\ tick_pc' = "idle"
    /\ last_op' = Op("idle_task")
    /\ link' = IF PositionsSent(eng') # <<>> THEN OnLink(link, now) ELSE link
    /\ speed_cmd' = SpeedOnLink(eng', speed_cmd)
    /\ UNCHANGED <<now, mav_param_by_sysid, ui_pipe, commands, ret, notified, twin>>

----------------------------------------------------------------------------
(* Spec: the engine without a UI (wx unavailable) under live telemetry *)

Init ==
    /\ mav_param_by_sysid = ParamStore
    /\ eng = ConstructEngine(LiveSettings, "null", mav_param_by_sysid)
    /\ now = 1
    /\ ui_pipe = <<>>
    /\ commands = <<>>
    /\ tick_pc = "idle"
    /\ last_op = Op("init")
    /\ link = NoneVal
    /\ speed_cmd = NoneVal
    /\ ret = NoneVal
    /\ notified = [source |-> "", note |-> ""]
    /\ twin = NoneVal

Next ==
    \/ AdvanceClock
    \/ Telemetry
    \/ CmdCatch
    \/ CmdHold
    \/ CmdGoto
    \/ TickBegin
    \/ TickEval

Spec == Init /\ [][Next]_vars

----------------------------------------------------------------------------
(* SpecUi: the engine with its UI, both vehicles tracked since time 1, the *)
(* leader still reporting positions                                       *)

RECURSIVE Receive(_, _, _)
\* mavlink_packet for each message of the sequence, in order
Receive(e, msgs, t) ==
    IF msgs = <<>> THEN e
    ELSE Receive(mavlink_packet(e, Head(msgs), t), Tail(msgs), t)

InitUi ==
    /\ mav_param_by_sysid = ParamStore
    /\ eng = Receive(ConstructEngine(InitSettings, "active", mav_param_by_sysid),
                     << LeaderHeartbeat, FollowerHeartbeat("GUIDED", TRUE),
                        LeaderPosition(10), FollowerPosition >>, 1)
    /\ now = 1
    /\ ui_pipe = <<>>
    /\ commands = <<>>
    /\ tick_pc = "idle"
    /\ last_op = Op("init")
    /\ link = NoneVal
    /\ speed_cmd = NoneVal
    /\ ret = NoneVal
    /\ notified = [source |-> "", note |-> ""]
    /\ twin = NoneVal

TelemetryUi ==
    \E lon \in {10, 12} :
        Handle(mavlink_packet(Fresh(eng), LeaderPosition(lon), now), "mavlink_packet", <<>>)

NextUi ==
    \/ AdvanceClock
    \/ TelemetryUi
    \/ CmdCatch
    \/ CmdHold
    \/ CmdClear
    \/ CmdGoto
    \/ CmdAltMode
    \/ CmdSet
    \/ UiSend
    \/ TickBegin
    \/ TickUi
    \/ TickEval

SpecUi == InitUi /\ [][NextUi]_vars

----------------------------------------------------------------------------
(* SpecSolve: compute_intercept called on the tracked vehicles at any time *)

SolveModes == {"guided", "Loiter", "GUIDED_NOGPS", "POSHOLD", "MANUAL"}

SolveMsgs ==
    { LeaderPosition(lon) : lon \in LeaderLons }
    \cup { FollowerPosition, LeaderHeartbeat }
    \cup { FollowerHeartbeat(m, a) : m \in SolveModes, a \in BOOLEAN }

TelemetrySolve ==
    \E msg \in SolveMsgs :
        Handle(mavlink_packet(Fresh(eng), msg, now), "mavlink_packet", <<>>)

\* the solver as idle_task calls it (line 998), with the current selection
Solve ==
    /\ Idle
    /\ LET r == compute_intercept(Fresh(eng), now, Val(eng.last_speed_selection))
       IN  /\ eng' = r.e
           /\ ret' = Some([status |-> r.status, blocked |-> IsNone(r.result),
                           result |-> r.result, log |-> r.log])
           /\ notified' = IF r.source = "" THEN notified
                          ELSE [source |-> r.source,
                                note |-> IF r.log = <<>> THEN notified.note ELSE r.log[1]]
    /\ last_op' = Op("compute_intercept")
    /\ tick_pc' = "solved"
    /\ UNCHANGED <<now, mav_param_by_sysid, ui_pipe, commands, link, speed_cmd, twin>>

\* the caller takes the returned value
SolveReturn ==
    /\ tick_pc = "solved"
    /\ tick_pc' = "idle"
    /\ ret' = NoneVal
    /\ last_op' = Op("return")
    /\ UNCHANGED <<eng, now, mav_param_by_sysid, ui_pipe, commands, link, speed_cmd, notified, twin>>

InitSolve ==
    /\ mav_param_by_sysid = ParamStore
    /\ eng = ConstructEngine(InitSettings, "null", mav_param_by_sysid)
    /\ now = 1
    /\ ui_pipe = <<>>
    /\ commands = <<>>
    /\ tick_pc = "idle"
    /\ last_op = Op("init")
    /\ link = NoneVal
    /\ speed_cmd = NoneVal
    /\ ret = NoneVal
    /\ notified = [source |-> "", note |-> ""]
    /\ twin = NoneVal

NextSolve ==
    \/ AdvanceClock
    \/ TelemetrySolve
    \/ Solve
    \/ SolveReturn

SpecSolve == InitSolve /\ [][NextSolve]_vars

----------------------------------------------------------------------------
(* SpecAlpha: the engine with its UI while the operator moves the smoothing *)
(* coefficient, by "catchleader set" and by the UI slider                   *)

\* values given to "catchleader set target_filter_alpha", in hundredths
AlphaChoices == {20, 50, 150}

CmdSetAlpha ==
    \E a \in AlphaChoices :
        Handle(cmd_set(Fresh(eng), "target_filter_alpha", a, mav_param_by_sysid),
               "set", <<NumTok(a)>>)

\* payloads of the slider: a position of the slider, a value above its range,
\* or text that is no number
UiAlphaPayloads ==
    { [cmd |-> "target_filter_alpha", arg |-> NumTok(20)],
      [cmd |-> "target_filter_alpha", arg |-> NumTok(100)],
      [cmd |-> "target_filter_alpha", arg |-> NumTok(150)],
      [cmd |-> "target_filter_alpha", arg |-> BadTok] }

UiSendAlpha ==
    /\ eng.ui = "active"
    /\ Len(ui_pipe) < MaxPipe
    /\ \E payload \in UiAlphaPayloads : ui_pipe' = Append(ui_pipe, payload)
    /\ eng' = Fresh(eng)
    /\ last_op' = Op("ui_send")
    /\ UNCHANGED <<now, mav_param_by_sysid, commands, tick_pc, link, speed_cmd, ret, notified, twin>>

NextAlpha ==
    \/ AdvanceClock
    \/ TelemetryUi
    \/ CmdCatch
    \/ CmdSetAlpha
    \/ UiSendAlpha
    \/ TickBegin
    \/ TickUi
    \/ TickEval

SpecAlpha == InitUi /\ [][NextAlpha]_vars

----------------------------------------------------------------------------
(* SpecSpeed: the engine guiding on tracked vehicles while the operator      *)
(* changes the speed profile and the configured speed                        *)

\* arguments of "catchleader speed": configured speeds 0.15 and 0.25 m/s apart,
\* and the MAX profile, resolved from the follower's AIRSPEED_MAX
SpeedParams ==
    { <<"custom", NumTok(2000)>>, <<"custom", NumTok(2015)>>,
      <<"custom", NumTok(2025)>>, <<"max">> }

\* "catchleader speed ...", and "catchleader set follower_speed 0"
CmdSpeed ==
    \/ \E params \in SpeedParams :
           Handle(handle_speed_command(Fresh(eng), params, mav_param_by_sysid),
                  "speed", params)
    \/ Handle(cmd_set(Fresh(eng), "follower_speed", 0, mav_param_by_sysid),
              "set", <<NumTok(0)>>)

NextSpeed ==
    \/ AdvanceClock
    \/ CmdCatch
    \/ CmdHold
    \/ CmdGoto
    \/ CmdClear
    \/ CmdSpeed
    \/ TickBegin
    \/ TickEval

SpecSpeed == InitUi /\ [][NextSpeed]_vars

----------------------------------------------------------------------------
(* SpecIntercept: compute_intercept on an armed follower in GUIDED, the     *)
(* custom speed configured at 15 m/s, the follower at a steady speed, while *)
(* the leader reports positions and velocities and the operator changes the *)
(* solver's settings                                                        *)

\* GLOBAL_POSITION_INT of a vehicle on the latitude of the follower
VehiclePosition(src, lon, vx, vy) ==
    [type |-> "GLOBAL_POSITION_INT", src |-> src, lat |-> 0, lon |-> lon,
     relative_alt |-> 10, alt |-> 12, vx |-> vx, vy |-> vy, vz |-> 0, hdg |-> HdgInvalid]

\* the leader 3, 20 or 55 m east of the follower: at rest, moving away at
\* 3.95 and 20 m/s, approaching at 6 m/s, crossing at 5 m/s
InterceptMsgs ==
    { VehiclePosition(LeaderKey, lon, v[1], v[2])
        : lon \in {3, 20, 55},
          v \in { <<0, 0>>, <<0, 395>>, <<0, 2000>>, <<0, -600>>, <<500, 0>> } }

\* the follower's eastward speed, steady over a run: hovering, 4 m/s, 15 m/s
FollowerSpeeds == {0, 400, 1500}

TelemetryIntercept ==
    \E msg \in InterceptMsgs :
        Handle(mavlink_packet(Fresh(eng), msg, now), "mavlink_packet", <<>>)

\* "catchleader set" of the settings the geometry reads
InterceptChoices ==
    { <<"min_closing", v>> : v \in {-100, 0, 5, 100, 3000} }
    \cup { <<"max_lookahead", v>> : v \in {200, 2500} }
    \cup { <<"use_relative_alt", b>> : b \in BOOLEAN }
    \cup { <<"target_alt_offset", v>> : v \in {0, 3} }

CmdSetIntercept ==
    \E c \in InterceptChoices :
        Handle(cmd_set(Fresh(eng), c[1], c[2], mav_param_by_sysid), "set", <<>>)

InitIntercept ==
    /\ mav_param_by_sysid = ParamStore
    /\ \E vy \in FollowerSpeeds :
           eng = Receive(ConstructEngine([InitSettings EXCEPT !.follower_speed = 1500],
                                         "null", mav_param_by_sysid),
                         << LeaderHeartbeat, FollowerHeartbeat("GUIDED", TRUE),
                            VehiclePosition(FollowerKey, 0, 0, vy) >>, 1)
    /\ now = 1
    /\ ui_pipe = <<>>
    /\ commands = <<>>
    /\ tick_pc = "idle"
    /\ last_op = Op("init")
    /\ link = NoneVal
    /\ speed_cmd = NoneVal
    /\ ret = NoneVal
    /\ notified = [source |-> "", note |-> ""]
    /\ twin = NoneVal

NextIntercept ==
    \/ TelemetryIntercept
    \/ CmdSetIntercept
    \/ Solve
    \/ SolveReturn

SpecIntercept == InitIntercept /\ [][NextIntercept]_vars

----------------------------------------------------------------------------
(* SpecFallback: compute_intercept called on a follower whose VehicleState  *)
(* holds a position with or without a velocity.  mavlink_packet stores the  *)
(* velocity with every position (update_from_position), so a follower      *)
(* without one is an input of the solver that only a direct caller can     *)
(* build, from the Optional fields of the VehicleState dataclass.          *)

\* the follower's VehicleState rebuilt with vx and vy left at their default
FollowerWithoutVelocity ==
    /\ ~IsNone(speed(Follower(eng)))
    /\ Handle([Fresh(eng) EXCEPT !.vehicle_states[FollowerKey].vx = NoneVal,
                                 !.vehicle_states[FollowerKey].vy = NoneVal],
              "follower_state", <<>>)

\* the leader at rest 3 or 55 m east, the follower at 4 or 15 m/s
FallbackMsgs ==
    { VehiclePosition(LeaderKey, lon, 0, 0) : lon \in {3, 55} }
    \cup { VehiclePosition(FollowerKey, 0, 0, vy) : vy \in {400, 1500} }

TelemetryFallback ==
    \E msg \in FallbackMsgs :
        Handle(mavlink_packet(Fresh(eng), msg, now), "mavlink_packet", <<>>)

NextFallback ==
    \/ TelemetryFallback
    \/ FollowerWithoutVelocity
    \/ Solve
    \/ SolveReturn

SpecFallback == InitIntercept /\ [][NextFallback]_vars

----------------------------------------------------------------------------
(* SpecFresh: heartbeats and positions of both vehicles stamped by an       *)
(* engine clock that starts at 0                                            *)

InitFresh ==
    /\ mav_param_by_sysid = ParamStore
    /\ eng = ConstructEngine(InitSettings, "null", mav_param_by_sysid)
    /\ now = 0
    /\ ui_pipe = <<>>
    /\ commands = <<>>
    /\ tick_pc = "idle"
    /\ last_op = Op("init")
    /\ link = NoneVal
    /\ speed_cmd = NoneVal
    /\ ret = NoneVal
    /\ notified = [source |-> "", note |-> ""]
    /\ twin = NoneVal

NextFresh ==
    \/ AdvanceClock
    \/ TelemetrySolve

SpecFresh == InitFresh /\ [][NextFresh]_vars

----------------------------------------------------------------------------
(* SpecResolve: _resolve_speed_selection under every profile, configured    *)
(* speeds of either sign and parameter stores in which each candidate       *)
(* parameter is absent, unusable or usable                                  *)

\* values a follower parameter is stored with, by name (<<>>: not stored):
\* text, infinite, zero, negative and positive numbers
ParamChoices ==
    [ AIRSPEED_CRUISE : { <<>>, <<[kind |-> "str", v |-> 0]>>, <<[kind |-> "num", v |-> 22]>> },
      AIRSPEED_TRIM   : { <<>>, <<[kind |-> "num", v |-> 0]>>, <<[kind |-> "num", v |-> 18]>> },
      TRIM_ARSPD_CM   : { <<>>, <<[kind |-> "num", v |-> -3]>>, <<[kind |-> "num", v |-> 1700]>> },
      AIRSPEED_MAX    : { <<>>, <<[kind |-> "inf", v |-> 0]>>, <<[kind |-> "num", v |-> -3]>>,
                          <<[kind |-> "num", v |-> 30]>> },
      ARSPD_FBW_MAX   : { <<>>, <<[kind |-> "num", v |-> 0]>>, <<[kind |-> "num", v |-> 2800]>> } ]

\* mav_param_by_sysid holding the stored parameters under the follower's key
StoreOf(ch) ==
    [k \in {FollowerKey} |-> [n \in {m \in DOMAIN ch : ch[m] # <<>>} |-> ch[n][1]]]

\* "catchleader set" of the profile and of the configured speed
ResolveChoices ==
    { <<"speed_profile", p>> : p \in {"custom", "cruise", "max"} }
    \cup { <<"follower_speed", v>> : v \in {-500, 0, 1500} }

CmdSetResolve ==
    \E c \in ResolveChoices :
        Handle(cmd_set(Fresh(eng), c[1], c[2], mav_param_by_sysid), "set", <<>>)

\* _resolve_speed_selection called on the settings and the store in force
Resolve ==
    /\ Idle
    /\ ret' = Some(resolve_speed_selection(eng, mav_param_by_sysid))
    /\ last_op' = Op("resolve_speed_selection")
    /\ tick_pc' = "solved"
    /\ UNCHANGED <<eng, now, mav_param_by_sysid, ui_pipe, commands, link, speed_cmd, notified, twin>>

InitResolve ==
    /\ \E ch \in ParamChoices :
           /\ mav_param_by_sysid = StoreOf(ch)
           /\ eng = ConstructEngine(InitSettings, "null", StoreOf(ch))
    /\ now = 1
    /\ ui_pipe = <<>>
    /\ commands = <<>>
    /\ tick_pc = "idle"
    /\ last_op = Op("init")
    /\ link = NoneVal
    /\ speed_cmd = NoneVal
    /\ ret = NoneVal
    /\ notified = [source |-> "", note |-> ""]
    /\ twin = NoneVal

NextResolve ==
    \/ CmdSetResolve
    \/ Resolve
    \/ SolveReturn

SpecResolve == InitResolve /\ [][NextResolve]_vars

----------------------------------------------------------------------------
(* SpecFilter: _filter_target and _reset_target_filter called with any       *)
(* target, in any order, under smoothing coefficients inside and outside    *)
(* [0, 1]                                                                    *)

\* "catchleader set target_filter_alpha": -0.5, 0, 0.3, 1.0 and 1.5
CmdSetFilterAlpha ==
    \E a \in {-50, 0, 30, 100, 150} :
        Handle(cmd_set(Fresh(eng), "target_filter_alpha", a, mav_param_by_sysid),
               "set", <<NumTok(a)>>)

ResetFilter == Handle(reset_target_filter(Fresh(eng)), "reset_target_filter", <<>>)

\* _filter_target applied to a target; ret is the tuple it returns
Filter ==
    \E target \in {0, 4} \X {10, 18} \X {-4, 2} :
        /\ Idle
        /\ eng' = filter_target(Fresh(eng), target)
        /\ ret' = Some(eng'.filtered_target)
        /\ last_op' = [name |-> "filter_target", params |-> target]
        /\ tick_pc' = "solved"
        /\ UNCHANGED <<now, mav_param_by_sysid, ui_pipe, commands, link, speed_cmd, notified, twin>>

NextFilter ==
    \/ CmdSetFilterAlpha
    \/ ResetFilter
    \/ Filter
    \/ SolveReturn

SpecFilter == InitSolve /\ [][NextFilter]_vars

----------------------------------------------------------------------------
(* SpecSend: _send_target called with any target, under every profile, with  *)
(* and without the follower's position; ret keeps the last emission          *)

\* the follower's stored parameters: AIRSPEED_MAX present or no parameter at all
SendStores ==
    { StoreOf(ch) : ch \in { c \in ParamChoices :
          /\ c.AIRSPEED_CRUISE = <<>> /\ c.AIRSPEED_TRIM = <<>>
          /\ c.TRIM_ARSPD_CM = <<>> /\ c.ARSPD_FBW_MAX = <<>>
          /\ c.AIRSPEED_MAX \in { <<>>, <<[kind |-> "num", v |-> 30]>> } } }

InitSend ==
    /\ \E st \in SendStores :
           /\ mav_param_by_sysid = st
           /\ eng = ConstructEngine(InitSettings, "null", st)
    /\ now = 1
    /\ ui_pipe = <<>>
    /\ commands = <<>>
    /\ tick_pc = "idle"
    /\ last_op = Op("init")
    /\ link = NoneVal
    /\ speed_cmd = NoneVal
    /\ ret = NoneVal
    /\ notified = [source |-> "", note |-> ""]
    /\ twin = NoneVal

TelemetrySend ==
    Handle(mavlink_packet(Fresh(eng), FollowerPosition, now), "mavlink_packet", <<>>)

\* "catchleader set" of the profile, the configured speed and the altitude frame
SendChoices ==
    { <<"speed_profile", p>> : p \in {"custom", "cruise", "max"} }
    \cup { <<"follower_speed", v>> : v \in {0, 1500} }
    \cup { <<"use_relative_alt", b>> : b \in BOOLEAN }

CmdSetSend ==
    \E c \in SendChoices :
        Handle(cmd_set(Fresh(eng), c[1], c[2], mav_param_by_sysid), "set", <<>>)

\* targets of the model: the first is where FollowerPosition puts the follower
SendTargets == { <<0, 0, 12>>, <<0, 10, 12>>, <<3, 0, 20>> }

\* _send_target as idle_task calls it (line 1007), with the current selection
Send ==
    /\ Idle
    /\ \E target \in SendTargets :
           /\ eng' = send_target(Fresh(eng), target, Val(eng.last_speed_selection))
           /\ last_op' = [name |-> "send_target", params |-> target]
    /\ ret' = Some([forced_velocity |-> Val(eng.last_speed_selection).forced_velocity,
                    msg |-> eng'.sent[1]])
    /\ UNCHANGED <<now, mav_param_by_sysid, ui_pipe, commands, tick_pc, link, speed_cmd, notified, twin>>

NextSend ==
    \/ TelemetrySend
    \/ CmdSetSend
    \/ Send

SpecSend == InitSend /\ [][NextSend]_vars

----------------------------------------------------------------------------
(* SpecSink: two engines given the same telemetry, clock readings and      *)
(* operator commands; eng has the active UI and a map, twin has any of the *)
(* three sinks, with or without a map                                      *)

UiSinks == {"active", "broken", "null"}

\* the engine after __init__ behind the sink ui, with or without mpstate.map
SinkEngine(ui, map) ==
    [ConstructEngine(InitSettings, ui, ParamStore) EXCEPT !.mpstate_map = map]

InitSink ==
    /\ mav_param_by_sysid = ParamStore
    /\ eng = SinkEngine("active", TRUE)
    /\ \E ui \in UiSinks, map \in BOOLEAN : twin = Some(SinkEngine(ui, map))
    /\ now = 1
    /\ ui_pipe = <<>>
    /\ commands = <<>>
    /\ tick_pc = "idle"
    /\ last_op = Op("init")
    /\ link = NoneVal
    /\ speed_cmd = NoneVal
    /\ ret = NoneVal
    /\ notified = [source |-> "", note |-> ""]

\* one input handled by both engines
SinkStep(h(_), name, params) ==
    /\ Idle
    /\ eng' = h(Fresh(eng))
    /\ twin' = Some(h(Fresh(Val(twin))))
    /\ last_op' = [name |-> name, params |-> params]
    /\ UNCHANGED <<now, mav_param_by_sysid, ui_pipe, commands, tick_pc, link, speed_cmd, ret,
                   notified>>

ClockSink ==
    /\ now < MaxTime
    /\ now' = now + 1
    /\ eng' = Fresh(eng)
    /\ twin' = Some(Fresh(Val(twin)))
    /\ last_op' = Op("clock")
    /\ UNCHANGED <<mav_param_by_sysid, ui_pipe, commands, tick_pc, link, speed_cmd, ret, notified>>

\* telemetry of both vehicles: the leader beyond min_distance of the follower
SinkMsgs ==
    { LeaderPosition(10), FollowerPosition, LeaderHeartbeat, FollowerHeartbeat("guided", TRUE) }

TelemetrySink ==
    \E msg \in SinkMsgs :
        SinkStep(LAMBDA e : mavlink_packet(e, msg, now), "mavlink_packet", <<>>)

\* the operator at the command line: catch, hold, goto, clear, alt_mode:relative
CmdSink ==
    \/ SinkStep(LAMBDA e : set_guidance_state(e, "auto", mav_param_by_sysid), "catch", <<>>)
    \/ SinkStep(LAMBDA e : set_guidance_state(e, "hold", mav_param_by_sysid), "hold", <<>>)
    \/ \E params \in GotoParams :
           SinkStep(LAMBDA e : handle_manual_target(e, params, mav_param_by_sysid),
                    "goto", params)
    \/ SinkStep(clear_manual_target, "clear", <<>>)
    \/ SinkStep(LAMBDA e : handle_altitude_mode(e, "relative"), "alt_mode", <<>>)

\* idle_task while the UI process sends nothing: poll_commands returns []
\* behind every sink (lines 89-93, 125-134)
TickSink ==
    SinkStep(LAMBDA e : guidance_tick(e, now, mav_param_by_sysid), "idle_task", <<>>)

NextSink ==
    \/ ClockSink
    \/ TelemetrySink
    \/ CmdSink
    \/ TickSink

SpecSink == InitSink /\ [][NextSink]_vars

----------------------------------------------------------------------------
(* SpecLink: the engine guiding on tracked vehicles while the follower's   *)
(* link goes through periods in which its write raises                     *)

\* the link starts or stops raising on write
LinkChange ==
    /\ Idle
    /\ \E outcome \in {"ok", "raises"} :
           /\ outcome # eng.transport
           /\ eng' = [Fresh(eng) EXCEPT !.transport = outcome]
    /\ last_op' = Op("link")
    /\ UNCHANGED <<now, mav_param_by_sysid, ui_pipe, commands, tick_pc, link, speed_cmd, ret,
                   notified, twin>>

NextLink ==
    \/ AdvanceClock
    \/ TelemetryUi
    \/ CmdCatch
    \/ CmdHold
    \/ CmdGoto
    \/ LinkChange
    \/ TickBegin
    \/ TickEval

SpecLink == InitUi /\ [][NextLink]_vars

----------------------------------------------------------------------------
(* SpecLive: the engine on tracked vehicles whose telemetry makes the solver *)
(* block and pass again; the main loop keeps calling idle_task and the      *)
(* clock keeps advancing up to MaxTime                                      *)

\* the leader inside and beyond min_distance, the follower leaving and
\* re-entering an allowed mode
LiveMsgs ==
    { LeaderPosition(2), LeaderPosition(10),
      FollowerHeartbeat("MANUAL", TRUE), FollowerHeartbeat("GUIDED", TRUE) }

TelemetryLive ==
    \E msg \in LiveMsgs :
        Handle(mavlink_packet(Fresh(eng), msg, now), "mavlink_packet", <<>>)

NextLive ==
    \/ AdvanceClock
    \/ TelemetryLive
    \/ CmdCatch
    \/ CmdHold
    \/ CmdGoto
    \/ TickBegin
    \/ TickEval

\* idle_task is called on every pass of the main loop, and time goes on
SpecLive ==
    /\ InitUi
    /\ [][NextLive]_vars
    /\ WF_vars(TickBegin)
    /\ WF_vars(TickEval)
    /\ WF_vars(AdvanceClock)

----------------------------------------------------------------------------
(* SpecParam: _get_vehicle_param called for any vehicle and name on stores  *)
(* that hold parameters under several components of system 2                *)

\* what mav_param_by_sysid holds for component c of system 2: no entry, an empty
\* dict, the parameter AIRSPEED_MAX (its value tells the component), or
\* another parameter only
ComponentParams(c) ==
    { <<>>,
      << [n \in {} |-> 0] >>,
      << [n \in {"AIRSPEED_MAX"} |-> [kind |-> "num", v |-> 20 + c]] >>,
      << [n \in {"AIRSPEED_CRUISE"} |-> [kind |-> "num", v |-> 10 + c]] >> }

ParamComponents == {0, 1, 7}

\* the store with the entries ch[c] that are present
ComponentStore(ch) ==
    [k \in { <<2, c>> : c \in {d \in ParamComponents : ch[d] # <<>>} } |-> ch[k[2]][1]]

InitParam ==
    /\ \E ch \in [ParamComponents -> UNION {ComponentParams(c) : c \in ParamComponents}] :
           /\ \A c \in ParamComponents : ch[c] \in ComponentParams(c)
           /\ mav_param_by_sysid = ComponentStore(ch)
    /\ eng = NewEngine(InitSettings, "null")
    /\ now = 1
    /\ ui_pipe = <<>>
    /\ commands = <<>>
    /\ tick_pc = "idle"
    /\ last_op = Op("init")
    /\ link = NoneVal
    /\ speed_cmd = NoneVal
    /\ ret = NoneVal
    /\ notified = [source |-> "", note |-> ""]
    /\ twin = NoneVal

\* _get_vehicle_param(sysid, compid, name) with the default None
Lookup ==
    /\ Idle
    /\ \E sysid \in {NoneVal, Some(2), Some(3)}, compid \in {NoneVal, Some(0), Some(1), Some(7)},
          name \in {"AIRSPEED_MAX", "AIRSPEED_CRUISE"} :
           /\ ret' = Some(get_vehicle_param(mav_param_by_sysid, sysid, compid, name))
           /\ last_op' = [name |-> "get_vehicle_param", params |-> <<sysid, compid, name>>]
    /\ tick_pc' = "solved"
    /\ UNCHANGED <<eng, now, mav_param_by_sysid, ui_pipe, commands, link, speed_cmd, notified,
                   twin>>

NextParam ==
    \/ Lookup
    \/ SolveReturn

SpecParam == InitParam /\ [][NextParam]_vars

----------------------------------------------------------------------------
(* SpecManual: the engine guiding on tracked vehicles while the operator    *)
(* sets one manual target after another and moves the smoothing coefficient *)

\* "catchleader goto" to either of two points
CmdGotoAny ==
    \E target \in { <<1, 12, 12>>, <<3, 4, 20>> } :
        Handle(handle_manual_target(Fresh(eng),
                                    <<NumTok(target[1]), NumTok(target[2]), NumTok(target[3])>>,
                                    mav_param_by_sysid),
               "goto", target)

NextManual ==
    \/ AdvanceClock
    \/ CmdCatch
    \/ CmdHold
    \/ CmdClear
    \/ CmdGotoAny
    \/ CmdSetAlpha
    \/ TickBegin
    \/ TickEval

SpecManual == InitUi /\ [][NextManual]_vars

----------------------------------------------------------------------------
(* SpecMeasured: the leader is tracked and two vehicles that can be the     *)
(* follower have sent heartbeats but no position yet; their positions       *)
(* arrive while the operator changes the speed profile, the follower, the   *)
(* guidance mode and the manual target, and the solver runs in the ticks    *)

OtherFollowerKey == <<3, 1>>

\* vehicle 2 at 4 m/s, vehicle 3 at 15 m/s
MeasuredMsgs ==
    { FollowerPosition,
      [FollowerPosition EXCEPT !.src = OtherFollowerKey, !.vy = 1500] }

TelemetryMeasured ==
    \E msg \in MeasuredMsgs :
        Handle(mavlink_packet(Fresh(eng), msg, now), "mavlink_packet", <<>>)

\* "catchleader set follower_sysid 2" and "... 3"
CmdSetFollower ==
    \E sysid \in {FollowerKey[1], OtherFollowerKey[1]} :
        Handle(cmd_set(Fresh(eng), "follower_sysid", sysid, mav_param_by_sysid),
               "set", <<"follower_sysid", sysid>>)

\* "catchleader speed max" and "catchleader speed cruise"
CmdSpeedProfile ==
    \E profile \in {"max", "cruise"} :
        Handle(handle_speed_command(Fresh(eng), <<profile>>, mav_param_by_sysid),
               "speed", <<profile>>)

InitMeasured ==
    /\ mav_param_by_sysid = ParamStore
    /\ eng = Receive(ConstructEngine(InitSettings, "null", mav_param_by_sysid),
                     << LeaderHeartbeat, LeaderPosition(10),
                        FollowerHeartbeat("GUIDED", TRUE),
                        [FollowerHeartbeat("GUIDED", TRUE) EXCEPT !.src = OtherFollowerKey] >>, 1)
    /\ now = 1
    /\ ui_pipe = <<>>
    /\ commands = <<>>
    /\ tick_pc = "idle"
    /\ last_op = Op("init")
    /\ link = NoneVal
    /\ speed_cmd = NoneVal
    /\ ret = NoneVal
    /\ notified = [source |-> "", note |-> ""]
    /\ twin = NoneVal

NextMeasured ==
    \/ AdvanceClock
    \/ TelemetryMeasured
    \/ CmdCatch
    \/ CmdHold
    \/ CmdGoto
    \/ CmdClear
    \/ CmdSpeedProfile
    \/ CmdSetFollower
    \/ TickBegin
    \/ TickEval

SpecMeasured == InitMeasured /\ [][NextMeasured]_vars

----------------------------------------------------------------------------
(* SpecChannel: the UI process queues commands on the pipe, several between *)
(* two ticks, and can exit (window closed, or killed) at any moment; the    *)
(* engine drains the pipe at the start of each tick                         *)

\* commands the pipe holds at most between two ticks
MaxQueued == 2

\* the buttons Catch and Hold, and the notice on_close sends (line 459)
QueuedPayloads ==
    { [cmd |-> "catch", arg |-> ""], [cmd |-> "hold", arg |-> ""],
      [cmd |-> "ui_closed", arg |-> ""] }

UiSendQueued ==
    /\ eng.ui = "active"
    /\ Len(ui_pipe) < MaxQueued
    /\ \E payload \in QueuedPayloads : ui_pipe' = Append(ui_pipe, payload)
    /\ eng' = Fresh(eng)
    /\ last_op' = Op("ui_send")
    /\ UNCHANGED <<now, mav_param_by_sysid, commands, tick_pc, link, speed_cmd, ret, notified, twin>>

\* the UI process ends: child.is_alive() is False from now on (lines 118,
\* 126); what the process had sent stays in the pipe
UiExit ==
    /\ eng.ui = "active"
    /\ eng' = [Fresh(eng) EXCEPT !.ui = "broken"]
    /\ last_op' = Op("ui_exit")
    /\ UNCHANGED <<now, mav_param_by_sysid, ui_pipe, commands, tick_pc, link, speed_cmd, ret, notified, twin>>

NextChannel ==
    \/ AdvanceClock
    \/ TelemetryUi
    \/ CmdCatch
    \/ UiSendQueued
    \/ UiExit
    \/ TickBegin
    \/ TickUi
    \/ TickEval

SpecChannel == InitUi /\ [][NextChannel]_vars

----------------------------------------------------------------------------
(* Properties *)

\* C1: two consecutive position targets emitted by the tick are at least
\* update_period apart on the engine clock, whatever ticks, telemetry,
\* HOLD/AUTO transitions and manual-target commands come in between
C1_Pacing ==
    Len(link) = 2 => link[2] - link[1] >= eng.catch_settings.update_period

\* two emissions exactly one period apart, the second by the tick just taken
C1_Witness ==
    /\ Len(link) = 2
    /\ link[2] - link[1] = eng.catch_settings.update_period
    /\ last_op.name = "idle_task"
    /\ PositionsSent(eng) # <<>>

\* C2: in HOLD no step emits a position target or a speed change, and the
\* mode leaves HOLD only by a catch, resume or manual-target-set command
C2_HoldSilent ==
    [][ /\ (eng.guidance_state = "hold" /\ last_op'.name = "idle_task"
              => eng'.sent = <<>>)
        /\ (eng'.guidance_state = "hold"
              => PositionsSent(eng') = <<>> /\ SpeedsSent(eng') = <<>>)
        /\ (eng.guidance_state = "hold" /\ eng'.guidance_state = "auto"
              => last_op'.name \in {"catch", "goto", "ui_catch"}) ]_vars

\* a tick taken in HOLD with the pacing interval elapsed, a manual target
\* present and an emission behind it
C2_Witness ==
    /\ last_op.name = "idle_task"
    /\ eng.guidance_state = "hold"
    /\ ~IsNone(eng.manual_target)
    /\ now - eng.last_sent >= eng.catch_settings.update_period
    /\ Len(link) >= 1

\* the solver's preconditions and range check, stated on the tracked vehicles
SolverBlocked(e, t) ==
    LET L  == Leader(e)
        F  == Follower(e)
        cs == e.catch_settings
    IN  \/ L.last_heartbeat = 0 \/ t - L.last_heartbeat > cs.heartbeat_timeout
        \/ F.last_heartbeat = 0 \/ t - F.last_heartbeat > cs.heartbeat_timeout
        \/ IsNone(L.lat) \/ t - L.last_update > cs.position_timeout
        \/ IsNone(F.lat) \/ t - F.last_update > cs.position_timeout
        \/ ~F.armed
        \/ F.mode \notin {"GUIDED", "guided", "LOITER", "Loiter", "GUIDED_NOGPS", "POSHOLD"}
        \/ Abs(Val(L.lat) - Val(F.lat)) + Abs(Val(L.lon) - Val(F.lon)) < cs.min_distance

\* C3: a paced tick in AUTO without manual target whose solve is blocked
\* emits nothing and leaves the filter unset
C3_BlockedTick ==
    [][ (last_op'.name = "idle_task"
         /\ eng.guidance_state = "auto"
         /\ IsNone(eng.manual_target)
         /\ now - eng.last_sent >= eng.catch_settings.update_period
         /\ SolverBlocked(eng, now))
        => (eng'.sent = <<>> /\ IsNone(eng'.filtered_target)) ]_vars

\* such a tick, taken with the follower disarmed on otherwise fresh telemetry
\* and with a filtered target left by an earlier emission
C3_Witness ==
    /\ last_op.name = "idle_task"
    /\ eng.guidance_state = "auto"
    /\ IsNone(eng.manual_target)
    /\ now - eng.last_sent >= eng.catch_settings.update_period
    /\ blocked_reason(eng, now) = "Follower disarmed - waiting for ARM"
    /\ Len(link) >= 1
    /\ IsNone(eng.filtered_target)

\* the solver's preconditions in the documented order, each with the text
\* reported when it is the first to fail; pass[i] is TRUE when check i holds
PreconditionsPass(e, t) ==
    LET L  == Leader(e)
        F  == Follower(e)
        cs == e.catch_settings
    IN  << L.last_heartbeat > 0 /\ t - L.last_heartbeat <= cs.heartbeat_timeout,
           F.last_heartbeat > 0 /\ t - F.last_heartbeat <= cs.heartbeat_timeout,
           ~IsNone(L.lat) /\ t - L.last_update <= cs.position_timeout,
           ~IsNone(F.lat) /\ t - F.last_update <= cs.position_timeout,
           ~IsNone(L.lat) /\ ~IsNone(L.lon) /\ ~IsNone(F.lat) /\ ~IsNone(F.lon),
           F.armed,
           F.mode \in {"GUIDED", "guided", "GUIDED_NOGPS", "POSHOLD", "LOITER", "Loiter"} >>

PreconditionReasons(mode) ==
    << "Waiting for leader heartbeat", "Waiting for follower heartbeat",
       "Waiting for leader position updates", "Waiting for follower position updates",
       "Incomplete telemetry for intercept", "Follower disarmed - waiting for ARM",
       "Follower mode " \o mode \o " - waiting for GUIDED/LOITER" >>

FailingPreconditions(e, t) == { i \in 1..7 : ~PreconditionsPass(e, t)[i] }

FirstFailing(e, t) ==
    CHOOSE i \in FailingPreconditions(e, t) : \A j \in FailingPreconditions(e, t) : i <= j

\* C4: compute_intercept reports the reason of the first failing precondition
\* in the order leader heartbeat, follower heartbeat, leader position, follower
\* position, positions non-null, armed, mode in the allow-list (any letter
\* case); the seven reasons are pairwise distinct and none is reported when
\* every precondition holds
C4_FirstFailure ==
    last_op.name = "compute_intercept" =>
        LET reasons == PreconditionReasons(Follower(eng).mode)
        IN  /\ Cardinality({ reasons[i] : i \in 1..7 }) = 7
            /\ IF FailingPreconditions(eng, now) = {}
               THEN \A i \in 1..7 : Val(ret).status # reasons[i]
               ELSE /\ Val(ret).status = reasons[FirstFailing(eng, now)]
                    /\ Val(ret).blocked

\* a solve with three preconditions failing at once: leader position never
\* received, follower disarmed and in MANUAL, both heartbeats fresh
C4_Witness ==
    /\ last_op.name = "compute_intercept"
    /\ FailingPreconditions(eng, now) = {3, 5, 6, 7}
    /\ Val(ret).status = "Waiting for leader position updates"

\* C5: after catch or resume, from the command line or from the UI, the mode
\* is AUTO, the manual target is absent and the filter is unset
C5_CatchClearsAll ==
    last_op.name \in {"catch", "ui_catch"} =>
        /\ eng.guidance_state = "auto"
        /\ IsNone(eng.manual_target)
        /\ IsNone(eng.filtered_target)

ValidGoto(params) ==
    Len(params) = 3 /\ \A i \in 1..3 : params[i].ok

\* C7: a goto with valid coordinates sets the manual target to the given
\* point, the mode to AUTO and the filter to unset; a paced tick in AUTO with
\* a manual target emits exactly one position target, at the manual point,
\* whatever the solver's preconditions say
C7_GotoThenEmit ==
    [][ /\ (last_op'.name = "goto" /\ ValidGoto(last_op'.params)
              => /\ eng'.manual_target = << last_op'.params[1].v, last_op'.params[2].v,
                                            last_op'.params[3].v >>
                 /\ eng'.guidance_state = "auto"
                 /\ IsNone(eng'.filtered_target))
        /\ ((last_op'.name = "idle_task"
              /\ eng.guidance_state = "auto"
              /\ ~IsNone(eng.manual_target)
              /\ now - eng.last_sent >= eng.catch_settings.update_period)
              => /\ Len(PositionsSent(eng')) = 1
                 /\ LET m == PositionsSent(eng')[1]
                    IN  <<m.lat, m.lon, m.alt>> = eng.manual_target) ]_vars

\* the manual point emitted by a tick while the solver is blocked: no
\* telemetry was ever received from the follower
C7_Witness ==
    /\ last_op.name = "idle_task"
    /\ ~IsNone(eng.manual_target)
    /\ Len(PositionsSent(eng)) = 1
    /\ eng.last_sent = now
    /\ Follower(eng).last_heartbeat = 0
    /\ IsNone(Follower(eng).lat)
    /\ blocked_reason(eng, now) # ""

\* C8: every step that sets or clears the manual target leaves the filter
\* unset
C8_ManualChangeResetsFilter ==
    [][ eng'.manual_target # eng.manual_target => IsNone(eng'.filtered_target) ]_vars

\* C9: every change of the altitude mode leaves the filter unset
C9_AltModeChangeResetsFilter ==
    [][ eng'.catch_settings.use_relative_alt # eng.catch_settings.use_relative_alt
          => IsNone(eng'.filtered_target) ]_vars

\* the target a tick at time t passes to the filter (idle_task, lines 992-1003)
RawTarget(e, t, store) ==
    LET e1 == update_speed_selection(e, store)
    IN  IF ~IsNone(e1.manual_target) THEN e1.manual_target
        ELSE Val(compute_intercept(e1, t, Val(e1.last_speed_selection)).result).target

\* C10: every change of the guidance mode leaves the filter unset, the filter
\* stays unset until a tick emits, and the target that tick emits is the raw
\* target
C10_TransitionsResetFilter ==
    [][ /\ (eng'.guidance_state # eng.guidance_state => IsNone(eng'.filtered_target))
        /\ (IsNone(eng.filtered_target) /\ ~IsNone(eng'.filtered_target)
              => last_op'.name = "idle_task" /\ Len(PositionsSent(eng')) = 1)
        /\ (IsNone(eng.filtered_target) /\ PositionsSent(eng') # <<>>
              => LET m == PositionsSent(eng')[1]
                 IN  <<m.lat, m.lon, m.alt>> = RawTarget(eng, now, mav_param_by_sysid)) ]_vars

\* the emission after a HOLD excursion: a second emission on the link, by a
\* tick that re-sent the speed command the hold had forgotten, for a leader
\* that moved since the engine started; the filter holds the raw target
C10_Witness ==
    /\ last_op.name = "idle_task"
    /\ Len(link) = 2
    /\ Len(PositionsSent(eng)) = 1
    /\ SpeedsSent(eng) # <<>>
    /\ IsNone(eng.manual_target)
    /\ Leader(eng).lon = Some(12)
    /\ eng.filtered_target = <<0, 12, 12>>

\* C11: every step that changes target_filter_alpha, by the settings command
\* or by the UI slider, leaves the filter unset
C11_AlphaChangeResetsFilter ==
    [][ eng'.catch_settings.target_filter_alpha # eng.catch_settings.target_filter_alpha
          => IsNone(eng'.filtered_target) ]_vars

\* the slider moved to 0.20 in AUTO after a position target went out
C11_Witness ==
    /\ last_op.name = "ui_target_filter_alpha"
    /\ eng.catch_settings.target_filter_alpha = 20
    /\ eng.guidance_state = "auto"
    /\ eng.last_sent = now
    /\ Len(link) >= 1
    /\ IsNone(eng.filtered_target)

\* C12: a speed change is sent only by a tick in AUTO, and only if no speed
\* was commanded since the last hold, or the new speed is more than 0.25 m/s
\* from the one commanded last, or its profile or source differs from it
C12_SpeedOnlyOnChange ==
    [][ SpeedsSent(eng') # <<>>
          => (last_op'.name = "idle_task"
              /\ eng'.guidance_state = "auto"
              /\ (IsNone(speed_cmd)
                  \/ Abs(SpeedsSent(eng')[1].value - Val(speed_cmd).value) > 25
                  \/ Val(eng'.last_speed_selection).profile # Val(speed_cmd).profile
                  \/ Val(eng'.last_speed_selection).source # Val(speed_cmd).source)) ]_vars

\* C13: a tick taken with a manual target present does not run the solver
\* (the follower-speed average it maintains is untouched) and sends no speed
\* change
C13_ManualTickNoSpeed ==
    [][ (last_op'.name = "idle_task" /\ ~IsNone(eng.manual_target))
          => (SpeedsSent(eng') = <<>>
              /\ eng'.follower_speed_smoothed = eng.follower_speed_smoothed
              /\ eng'.speed_telemetry_warning_sent = eng.speed_telemetry_warning_sent) ]_vars

\* C14: hold leaves the last commanded value, profile and source unset, and
\* a tick that emits a position target while no speed was commanded since the
\* last hold also sends the resolved speed when it is positive
C14_HoldForgetsSpeed ==
    [][ /\ (last_op'.name \in {"hold", "ui_hold"}
              => (IsNone(eng'.last_speed_command_value)
                  /\ IsNone(eng'.last_speed_profile_command)
                  /\ IsNone(eng'.last_speed_source_command)))
        /\ ((PositionsSent(eng') # <<>> /\ IsNone(speed_cmd)
             /\ Val(eng'.last_speed_selection).value > 0)
              => (Len(SpeedsSent(eng')) = 1
                  /\ SpeedsSent(eng')[1].value = Val(eng'.last_speed_selection).value)) ]_vars

\* the second emission, after a hold, re-sending the speed configured at
\* construction (profile and source as before the hold)
C14_Witness ==
    /\ last_op.name = "idle_task"
    /\ Len(link) = 2
    /\ Len(PositionsSent(eng)) = 1
    /\ Len(SpeedsSent(eng)) = 1
    /\ speed_cmd = Some([value |-> 2000, profile |-> "custom", source |-> "follower_speed"])
    /\ Val(eng.last_speed_selection).value = 2000

\* a call of compute_intercept has just returned a solution
Solved == tick_pc = "solved" /\ ~Val(ret).blocked

\* the solution returned by the call
Solution == Val(Val(ret).result)

\* the follower speed a solve uses in the state e it leaves: the smoothed
\* measured speed, or the selected speed without a measured one, floored at
\* 0.1 m/s
FollowerSpeedUsed(e) ==
    IF IsNone(speed(Follower(e)))
    THEN Max2(Val(e.last_speed_selection).value, 10)
    ELSE Max2(Val(e.follower_speed_smoothed), 10)

\* follower speed minus the projection of the leader's velocity on the line
\* of sight from the follower to the leader
RawClosingRate(e) ==
    LET L  == Leader(e)
        F  == Follower(e)
        b  == GpsBearing(Val(F.lat), Val(F.lon), Val(L.lat), Val(L.lon))
        ls == IF IsNone(speed(L)) THEN 0 ELSE Val(speed(L))
        c  == IF ls > 1 THEN CourseDeg(Val(L.vx), Val(L.vy)) ELSE b
    IN  FollowerSpeedUsed(e) - ls * CosDeg(b - c)

\* C15 as stated: in every successful solve, a raw closing rate that is
\* negative or below the configured min_closing sets the clamp flag and makes
\* the closing rate used equal to the configured min_closing, whatever its
\* value; otherwise the raw rate is used and the flag is clear
C15_ClampToConfigured ==
    Solved =>
        IF RawClosingRate(eng) < 0 \/ RawClosingRate(eng) < eng.catch_settings.min_closing
        THEN Solution.closing_limited
             /\ Solution.closing_rate = eng.catch_settings.min_closing
        ELSE ~Solution.closing_limited
             /\ Solution.closing_rate = RawClosingRate(eng)

\* C15: in every successful solve, a raw closing rate below the larger of
\* the configured min_closing and 0.1 m/s sets the clamp flag and makes the
\* closing rate used equal to that larger value (the configured min_closing
\* whenever it is at least 0.1 m/s); otherwise the raw rate is used and the
\* flag is clear
C15_ClampToFlooredMinimum ==
    Solved =>
        IF RawClosingRate(eng) < Max2(eng.catch_settings.min_closing, 10)
        THEN Solution.closing_limited
             /\ Solution.closing_rate = Max2(eng.catch_settings.min_closing, 10)
        ELSE ~Solution.closing_limited
             /\ Solution.closing_rate = RawClosingRate(eng)

\* a solve with min_closing configured as 0 and the leader outrunning the
\* follower: the clamp acts and the rate used is 0.1 m/s
C15_Witness ==
    /\ Solved
    /\ eng.catch_settings.min_closing = 0
    /\ RawClosingRate(eng) < 0
    /\ Solution.closing_limited
    /\ Solution.closing_rate = 10

\* horizontal distance from the follower to the leader, in metres
Range(e) ==
    GpsDistance(Val(Follower(e).lat), Val(Follower(e).lon),
                Val(Leader(e).lat), Val(Leader(e).lon))

\* C16: in every successful solve, whatever the speeds, the range and the
\* configured min_closing (zero and negative included), the closing rate the
\* solve divides by is strictly positive and the time-to-go is
\* min(range / closing rate, max_lookahead), so never above max_lookahead
C16_TimeToGoBounded ==
    Solved =>
        /\ Solution.closing_rate > 0
        /\ Solution.time_to_go
               = Min2((Range(eng) * 10000) \div Solution.closing_rate,
                      eng.catch_settings.max_lookahead)
        /\ Solution.time_to_go <= eng.catch_settings.max_lookahead

\* a solve with min_closing configured negative and the leader outrunning
\* the follower: range / closing rate is beyond the look-ahead and the
\* time-to-go is the look-ahead
C16_Witness ==
    /\ Solved
    /\ eng.catch_settings.min_closing < 0
    /\ RawClosingRate(eng) < 0
    /\ (Range(eng) * 10000) \div Solution.closing_rate > eng.catch_settings.max_lookahead
    /\ Solution.time_to_go = eng.catch_settings.max_lookahead

\* the end-to-end scenario: leader at rest 55 m from the follower, follower
\* armed in GUIDED, all telemetry fresh, custom speed configured at 15 m/s,
\* min_distance 5 m, min_closing 1 m/s, max_lookahead 25 s
Scenario(e, t) ==
    /\ FailingPreconditions(e, t) = {}
    /\ Follower(e).mode = "GUIDED"
    /\ speed(Leader(e)) = Some(0)
    /\ Range(e) = 55
    /\ Val(e.last_speed_selection).profile = "custom"
    /\ Val(e.last_speed_selection).value = 1500
    /\ e.catch_settings.min_distance = 5
    /\ e.catch_settings.min_closing = 100
    /\ e.catch_settings.max_lookahead = 2500

\* C17 as stated: in the end-to-end scenario the solve is not blocked and
\* its time-to-go is range / 15 s, the follower speed used being the
\* configured 15 m/s
C17_ScenarioConfiguredSpeed ==
    (tick_pc = "solved" /\ Scenario(eng, now)) =>
        /\ ~Val(ret).blocked
        /\ Solution.time_to_go = (Range(eng) * 10000) \div 1500

\* C17: in the end-to-end scenario the solve is not blocked and its
\* time-to-go is min(range / S, 25 s), S being the follower's smoothed
\* measured speed, raised to min_closing when below it; it is range / 15 s
\* when the follower is measured at 15 m/s
C17_ScenarioMeasuredSpeed ==
    (tick_pc = "solved" /\ Scenario(eng, now)) =>
        /\ ~Val(ret).blocked
        /\ ~IsNone(speed(Follower(eng)))
        /\ Solution.time_to_go
               = Min2((Range(eng) * 10000) \div Max2(Val(eng.follower_speed_smoothed), 100),
                      2500)
        /\ (Val(eng.follower_speed_smoothed) = 1500
               => Solution.time_to_go = (Range(eng) * 10000) \div 1500)

\* the scenario solved with the follower measured at 4 m/s: the time-to-go
\* is 55 m / 4 m/s
C17_Witness ==
    /\ tick_pc = "solved"
    /\ Scenario(eng, now)
    /\ Val(eng.follower_speed_smoothed) = 400
    /\ Solution.time_to_go = 1375

\* C18: in every successful solve with the leader at rest, the target's
\* latitude and longitude are the leader's own; and the target's altitude is
\* the leader's altitude in the configured frame (relative or AMSL) plus
\* target_alt_offset
C18_TargetAtRestingLeader ==
    Solved =>
        /\ (speed(Leader(eng)) = Some(0)
              => (Solution.target[1] = Val(Leader(eng).lat)
                  /\ Solution.target[2] = Val(Leader(eng).lon)))
        /\ Solution.target[3]
               = (IF eng.catch_settings.use_relative_alt
                  THEN Val(Leader(eng).rel_alt) ELSE Val(Leader(eng).amsl_alt))
                 + eng.catch_settings.target_alt_offset

\* a solve on a resting leader with the relative frame and an offset of 3
\* configured, the follower flying at 15 m/s
C18_Witness ==
    /\ Solved
    /\ speed(Leader(eng)) = Some(0)
    /\ speed(Follower(eng)) = Some(1500)
    /\ eng.catch_settings.use_relative_alt
    /\ eng.catch_settings.target_alt_offset = 3
    /\ Solution.target = <<0, 55, 13>>

\* C19: over any sequence of solves, "telemetry unavailable" is posted by
\* exactly the solves that resolve the speed by fallback when the solve
\* before did not, "telemetry restored" by exactly the solves that resolve
\* it from telemetry when the solve before used the fallback; a solve posts
\* at most one of them, and the two alternate, "unavailable" first
C19_NotificationsAlternate ==
    [][ (tick_pc = "idle" /\ tick_pc' = "solved") =>
          IF FailingPreconditions(eng, now) # {}
          THEN Val(ret').log = <<>> /\ notified' = notified
          ELSE /\ Val(ret').log \in { <<>>,
                                      <<"Follower speed telemetry unavailable">>,
                                      <<"Follower speed telemetry restored">> }
               /\ (Val(ret').log = <<"Follower speed telemetry unavailable">>
                     <=> (IsNone(speed(Follower(eng))) /\ notified.source # "fallback"))
               /\ (Val(ret').log = <<"Follower speed telemetry restored">>
                     <=> (~IsNone(speed(Follower(eng))) /\ notified.source = "fallback"))
               /\ (Val(ret').log = <<"Follower speed telemetry unavailable">>
                     => notified.note # "Follower speed telemetry unavailable")
               /\ (Val(ret').log = <<"Follower speed telemetry restored">>
                     => notified.note = "Follower speed telemetry unavailable") ]_vars

\* a solve that posts "telemetry restored": the follower's velocity is back
\* after a solve by fallback
C19_Witness ==
    /\ tick_pc = "solved"
    /\ Val(ret).log = <<"Follower speed telemetry restored">>
    /\ notified.source = "telemetry"
    /\ ~eng.speed_telemetry_warning_sent

\* update_from_heartbeat has acted on the vehicle: it has stored a mode
HeartbeatReceived(vs) == vs.mode # "UNKNOWN"

\* update_from_position has acted on the vehicle: it has stored the altitudes
PositionReceived(vs) == ~IsNone(vs.rel_alt) /\ ~IsNone(vs.amsl_alt)

\* C20: for each vehicle, each instant t from now on and each timeout,
\* is_position_fresh is true exactly when a position was received and
\* t - last_update <= timeout, and is_heartbeat_fresh is true exactly when a
\* heartbeat was received and t - last_heartbeat <= timeout, whatever the
\* time the update was stamped at
C20_FreshIffRecent ==
    \A k \in DOMAIN eng.vehicle_states :
        \A t \in now..(MaxTime + 1) :
            \A timeout \in 0..MaxTime :
                /\ is_position_fresh(eng.vehicle_states[k], t, timeout)
                      <=> (PositionReceived(eng.vehicle_states[k])
                           /\ t - eng.vehicle_states[k].last_update <= timeout)
                /\ is_heartbeat_fresh(eng.vehicle_states[k], t, timeout)
                      <=> (HeartbeatReceived(eng.vehicle_states[k])
                           /\ t - eng.vehicle_states[k].last_heartbeat <= timeout)

\* the seven position fields of a vehicle record
PositionFields(vs) == << vs.lat, vs.lon, vs.rel_alt, vs.amsl_alt, vs.vx, vs.vy, vs.vz >>

\* C21: in every reachable state each vehicle record has lat, lon, relative
\* altitude, AMSL altitude, vx, vy and vz all present or all absent
C21_PositionAtomic ==
    \A k \in DOMAIN eng.vehicle_states :
        \/ \A i \in 1..7 : IsNone(PositionFields(eng.vehicle_states[k])[i])
        \/ \A i \in 1..7 : ~IsNone(PositionFields(eng.vehicle_states[k])[i])

\* the follower with a position and a later heartbeat, the leader with a
\* heartbeat and no position yet
C21_Witness ==
    /\ \A i \in 1..7 : ~IsNone(PositionFields(Follower(eng))[i])
    /\ Follower(eng).last_heartbeat > Follower(eng).last_update
    /\ \A i \in 1..7 : IsNone(PositionFields(Leader(eng))[i])
    /\ Leader(eng).last_heartbeat > 0

\* a call of _resolve_speed_selection has just returned; ret is its selection
Resolved == tick_pc = "solved" /\ last_op.name = "resolve_speed_selection"

\* C22 as stated: with profile custom the selection's value is the
\* configured follower speed verbatim, whatever its sign, with fallback
\* false and the same for every parameter store
C22_CustomVerbatim ==
    (Resolved /\ eng.catch_settings.speed_profile = "custom") =>
        /\ Val(ret).value = eng.catch_settings.follower_speed
        /\ ~Val(ret).fallback
        /\ \A ch \in ParamChoices : resolve_speed_selection(eng, StoreOf(ch)) = Val(ret)

\* C22: with profile custom the selection's value is the configured
\* follower speed when that is zero or positive and 0 when it is negative,
\* with source follower_speed, fallback false, and the same selection for
\* every parameter store
C22_CustomNonNegative ==
    (Resolved /\ eng.catch_settings.speed_profile = "custom") =>
        /\ Val(ret).value = Max2(eng.catch_settings.follower_speed, 0)
        /\ (eng.catch_settings.follower_speed >= 0
              => Val(ret).value = eng.catch_settings.follower_speed)
        /\ Val(ret).source = "follower_speed"
        /\ ~Val(ret).fallback
        /\ \A ch \in ParamChoices : resolve_speed_selection(eng, StoreOf(ch)) = Val(ret)

\* a custom resolution of a negative configured speed while the follower
\* reports a usable AIRSPEED_MAX
C22_Witness ==
    /\ Resolved
    /\ eng.catch_settings.speed_profile = "custom"
    /\ eng.catch_settings.follower_speed = -500
    /\ "AIRSPEED_MAX" \in DOMAIN mav_param_by_sysid[FollowerKey]
    /\ Usable(mav_param_by_sysid[FollowerKey]["AIRSPEED_MAX"], 100)
    /\ Val(ret).value = 0

UsableAt(profile, i) ==
    LET c == profile_candidates(profile)[i]
        P == mav_param_by_sysid[FollowerKey]
    IN  /\ c.name \in DOMAIN P
        /\ P[c.name].kind = "num"
        /\ P[c.name].v * c.scale > 0

\* C24: with profile cruise or max and some usable candidate, the selection
\* holds the scaled value of the usable candidate that comes first in the
\* profile's list, its name as source and fallback false, whatever the later
\* candidates hold; absent, text, infinite, zero and negative candidates
\* before it are passed over
C24_FirstUsableWins ==
    (Resolved /\ eng.catch_settings.speed_profile \in {"cruise", "max"}) =>
        LET profile == eng.catch_settings.speed_profile
            cands   == profile_candidates(profile)
        IN  \A i \in 1..Len(cands) :
                (UsableAt(profile, i) /\ \A j \in 1..(i - 1) : ~UsableAt(profile, j))
                    => /\ Val(ret).value
                              = mav_param_by_sysid[FollowerKey][cands[i].name].v * cands[i].scale
                       /\ Val(ret).source = cands[i].name
                       /\ ~Val(ret).fallback

\* cruise resolved with AIRSPEED_CRUISE stored as text and both AIRSPEED_TRIM
\* and TRIM_ARSPD_CM positive: AIRSPEED_TRIM wins
C24_Witness ==
    /\ Resolved
    /\ eng.catch_settings.speed_profile = "cruise"
    /\ "AIRSPEED_CRUISE" \in DOMAIN mav_param_by_sysid[FollowerKey]
    /\ ~UsableAt("cruise", 1)
    /\ UsableAt("cruise", 2)
    /\ UsableAt("cruise", 3)
    /\ Val(ret).value = 1800
    /\ Val(ret).source = "AIRSPEED_TRIM"

\* the profile in force has candidates and none of them is usable
NoUsableCandidate ==
    /\ eng.catch_settings.speed_profile \in {"cruise", "max"}
    /\ \A i \in 1..Len(profile_candidates(eng.catch_settings.speed_profile)) :
           ~UsableAt(eng.catch_settings.speed_profile, i)

\* the warning names every candidate of the profile in force
WarningNamesAll(w) ==
    \A i \in 1..Len(profile_candidates(eng.catch_settings.speed_profile)) :
        \E j \in 1..Len(w) :
            w[j] = profile_candidates(eng.catch_settings.speed_profile)[i].name

\* C25 as stated: with profile cruise or max and no usable candidate the
\* selection holds the configured follower speed, fallback true and a
\* non-empty warning that names every candidate of the profile; fallback is
\* true in no other case
C25_FallbackConfigured ==
    Resolved =>
        /\ (Val(ret).fallback <=> NoUsableCandidate)
        /\ (NoUsableCandidate
              => /\ Val(ret).value = eng.catch_settings.follower_speed
                 /\ Val(ret).warning # <<>>
                 /\ WarningNamesAll(Val(ret).warning))

\* C25: with profile cruise or max and no usable candidate the selection
\* holds max(configured follower speed, 0) with source follower_speed,
\* fallback true and a non-empty warning that names every candidate of the
\* profile; fallback is true in no other case
C25_FallbackNonNegative ==
    Resolved =>
        /\ (Val(ret).fallback <=> NoUsableCandidate)
        /\ (NoUsableCandidate
              => /\ Val(ret).value = Max2(eng.catch_settings.follower_speed, 0)
                 /\ Val(ret).source = "follower_speed"
                 /\ Val(ret).warning # <<>>
                 /\ WarningNamesAll(Val(ret).warning))

\* max resolved with AIRSPEED_MAX infinite and ARSPD_FBW_MAX zero: the
\* configured 15 m/s with fallback set
C25_Witness ==
    /\ Resolved
    /\ eng.catch_settings.speed_profile = "max"
    /\ eng.catch_settings.follower_speed = 1500
    /\ {"AIRSPEED_MAX", "ARSPD_FBW_MAX"} \subseteq DOMAIN mav_param_by_sysid[FollowerKey]
    /\ mav_param_by_sysid[FollowerKey]["AIRSPEED_MAX"].kind = "inf"
    /\ Val(ret).fallback
    /\ Val(ret).value = 1500

\* x lies between a and b, ends included
Between(x, a, b) == (a <= x /\ x <= b) \/ (b <= x /\ x <= a)

\* C26: a reset leaves the filter unset whatever was applied before, and an
\* application to a target T on an unset filter returns exactly T and keeps
\* T as the filter state, under every smoothing coefficient
C26_FirstAfterReset ==
    [][ /\ (last_op'.name = "reset_target_filter" => IsNone(eng'.filtered_target))
        /\ ((last_op'.name = "filter_target" /\ IsNone(eng.filtered_target))
              => (ret' = Some(last_op'.params)
                  /\ eng'.filtered_target = last_op'.params)) ]_vars

\* the filter applied to (4, 18, 2) with the coefficient at 0 and returning
\* that target: with no smoothing step taken, the filter was unset
C26_Witness ==
    /\ last_op.name = "filter_target"
    /\ tick_pc = "solved"
    /\ eng.catch_settings.target_filter_alpha = 0
    /\ last_op.params = <<4, 18, 2>>
    /\ ret = Some(<<4, 18, 2>>)

\* C27: with the coefficient at 1.0 or above, every output of the filter is
\* its input; at 0.0 or below, every output on a set filter is the previous
\* output, hence the first one since the last reset; strictly in between,
\* each component of the output lies between the previous output and the
\* input
C27_AlphaExtremes ==
    [][ last_op'.name = "filter_target" =>
          /\ ret' = Some(eng'.filtered_target)
          /\ (eng.catch_settings.target_filter_alpha >= 100
                => eng'.filtered_target = last_op'.params)
          /\ ((eng.catch_settings.target_filter_alpha <= 0 /\ ~IsNone(eng.filtered_target))
                => eng'.filtered_target = eng.filtered_target)
          /\ ((eng.catch_settings.target_filter_alpha > 0
                /\ eng.catch_settings.target_filter_alpha < 100
                /\ ~IsNone(eng.filtered_target))
                => \A i \in 1..3 :
                       Between(eng'.filtered_target[i], eng.filtered_target[i],
                               last_op'.params[i])) ]_vars

\* the filter applied with the coefficient configured as -0.5 to a target
\* that differs from its state in every component: the state is returned
C27_Witness ==
    /\ last_op.name = "filter_target"
    /\ tick_pc = "solved"
    /\ eng.catch_settings.target_filter_alpha = -50
    /\ \A i \in 1..3 : eng.filtered_target[i] # last_op.params[i]
    /\ ret = Some(eng.filtered_target)

\* C28: the position target of _send_target carries a non-ignored velocity
\* vector only under the MAX profile with a positive resolved speed and the
\* follower's latitude, longitude and altitude in the configured frame all
\* present; in every other case the one command is still emitted at the
\* target, its velocity components zero and masked as ignored
C28_VelocityOnlyWhenMax ==
    [][last_op'.name = "send_target" =>
        LET sel == Val(eng.last_speed_selection)
            F   == Follower(eng)
            alt == IF eng.catch_settings.use_relative_alt THEN F.rel_alt ELSE F.amsl_alt
            allowed == /\ sel.profile = "max" /\ sel.value > 0
                       /\ ~IsNone(F.lat) /\ ~IsNone(F.lon) /\ ~IsNone(alt)
            msgs == PositionsSent(eng')
        IN  /\ Len(eng'.sent) = 1 /\ Len(msgs) = 1
            /\ <<msgs[1].lat, msgs[1].lon, msgs[1].alt>> = last_op'.params
            /\ (~msgs[1].velocity_ignored => allowed)
            /\ (~allowed => (msgs[1].velocity_ignored /\ msgs[1].velocity = <<0, 0, 0>>))]_vars

\* a command under MAX with the follower's position known and the relative
\* frame in force, carrying a velocity vector that is not all zero
C28_Witness ==
    /\ last_op.name = "send_target"
    /\ ~IsNone(ret)
    /\ Val(ret).forced_velocity
    /\ eng.catch_settings.use_relative_alt
    /\ ~Val(ret).msg.velocity_ignored
    /\ Val(ret).msg.velocity # <<0, 0, 0>>

\* C29: over any sequence of emissions, "Velocity override skipped" is logged
\* exactly on an emission that is degraded (MAX profile, no valid velocity
\* vector) while the emission before it, if any, was not degraded; a degraded
\* emission that follows a degraded one logs no warning
C29_WarningOnEdge ==
    [][last_op'.name = "send_target" =>
        LET degraded == Val(ret').forced_velocity /\ Val(ret').msg.velocity_ignored
            previous == ~IsNone(ret) /\ Val(ret).forced_velocity
                                    /\ Val(ret).msg.velocity_ignored
            skipped  == "Velocity override skipped - follower telemetry incomplete"
            warned   == \E i \in 1..Len(eng'.log) : eng'.log[i] = skipped
        IN  warned <=> (degraded /\ ~previous)]_vars

\* a degraded emission right after a degraded one: MAX, velocity ignored, the
\* warning latch already set and nothing logged by this call
C29_Witness ==
    /\ last_op.name = "send_target"
    /\ ~IsNone(ret)
    /\ Val(ret).forced_velocity /\ Val(ret).msg.velocity_ignored
    /\ eng.velocity_override_warning_sent
    /\ eng.log = <<>>

\* C30: an out-of-range smoothing coefficient, given to "catchleader set" or
\* sent by the UI slider, is rejected: the guidance mode, the manual target,
\* the filter state and every setting are what they were before it
C30_InvalidAlphaRejected ==
    [][ (\/ /\ last_op'.name = "set"
            /\ last_op'.params[1].v \notin 0..100
         \/ /\ last_op'.name = "ui_target_filter_alpha"
            /\ Head(commands).arg.ok
            /\ Head(commands).arg.v \notin 0..100)
          => /\ eng'.guidance_state = eng.guidance_state
             /\ eng'.manual_target = eng.manual_target
             /\ eng'.filtered_target = eng.filtered_target
             /\ eng'.catch_settings = eng.catch_settings ]_vars

\* C31: for the same telemetry, clock readings and operator commands, the
\* commands emitted to the follower, the guidance mode, the manual target and
\* the filter state are the same behind the active UI, a UI with a broken
\* pipe and the null sink, with and without a map overlay
C31_SinkIndependent ==
    ~IsNone(twin) =>
        /\ Val(twin).sent = eng.sent
        /\ Val(twin).guidance_state = eng.guidance_state
        /\ Val(twin).manual_target = eng.manual_target
        /\ Val(twin).filtered_target = eng.filtered_target

\* a tick that emitted a position target from both engines, eng drawing its
\* marker on the map, twin behind a broken pipe without a map
C31_Witness ==
    /\ ~IsNone(twin)
    /\ last_op.name = "idle_task"
    /\ PositionsSent(eng) # <<>>
    /\ eng.map_target_added
    /\ Val(twin).ui = "broken"
    /\ ~Val(twin).mpstate_map
    /\ ~Val(twin).map_target_added

\* C32: a send to the transport that fails during a tick does not abort the
\* tick: the last emission time, the filter state and the speed de-dup state
\* after the tick are those of the same tick with the send succeeding
C32_FailedSendSameUpdates ==
    [][ (last_op'.name = "idle_task" /\ eng.transport = "raises")
          => /\ eng'.last_sent =
                    guidance_tick([eng EXCEPT !.transport = "ok"], now, mav_param_by_sysid).last_sent
             /\ eng'.filtered_target =
                    guidance_tick([eng EXCEPT !.transport = "ok"], now, mav_param_by_sysid).filtered_target
             /\ eng'.last_speed_command_value =
                    guidance_tick([eng EXCEPT !.transport = "ok"], now,
                                  mav_param_by_sysid).last_speed_command_value ]_vars

\* AUTO without manual target, every solver precondition holding and the
\* range at or above min_distance, the pacing interval elapsed or about to
\* elapse as the clock advances
ReadyToEmit ==
    /\ eng.guidance_state = "auto"
    /\ IsNone(eng.manual_target)
    /\ ~SolverBlocked(eng, now)
    /\ (~pacing_pending(eng, now) \/ now < MaxTime)

\* C33: a blocked solve is not terminal. A tick that emits no position target
\* leaves the last-emission time as it was; and once the mode is AUTO without
\* manual target and the preconditions and range hold, either they cease to
\* hold or the operator changes the mode or target, or a tick emits a
\* position target, with no operator action needed
C33_BlockedNotTerminal ==
    /\ [][ (last_op'.name = "idle_task" /\ PositionsSent(eng') = <<>>)
              => eng'.last_sent = eng.last_sent ]_vars
    /\ (ReadyToEmit ~> ((last_op.name = "idle_task" /\ PositionsSent(eng) # <<>>)
                           \/ ~ReadyToEmit))

\* the first position target of the run, emitted by a tick at time 2 once the
\* follower, in MANUAL before, reported GUIDED again at time 2
C33_Witness ==
    /\ last_op.name = "idle_task"
    /\ PositionsSent(eng) # <<>>
    /\ link = <<2>>
    /\ eng.last_sent = 2
    /\ Follower(eng).last_heartbeat = 2
    /\ Follower(eng).mode = "GUIDED"

\* the component ids a lookup for (sysid, compid) searches, in order
SearchOrder(compid) ==
    IF IsNone(compid) \/ compid = Some(1) THEN <<1, 0>>
    ELSE IF compid = Some(0) THEN <<0, 1>>
    ELSE <<Val(compid), 1, 0>>

\* C34: the lookup for (sysid, compid) searches the exact compid, then 1,
\* then 0, each once, and returns the value of the first of them whose
\* parameters hold the name; it returns the default (None) when sysid is
\* absent or none of them holds the name
C34_LookupOrder ==
    last_op.name = "get_vehicle_param" =>
        LET sysid == last_op.params[1]
            order == SearchOrder(last_op.params[2])
            name  == last_op.params[3]
            has   == { i \in 1..Len(order) :
                         /\ ~IsNone(sysid)
                         /\ <<Val(sysid), order[i]>> \in DOMAIN mav_param_by_sysid
                         /\ name \in DOMAIN mav_param_by_sysid[<<Val(sysid), order[i]>>] }
        IN  IF has = {} THEN Val(ret) = NoneVal
            ELSE \E i \in has :
                    /\ \A j \in has : i <= j
                    /\ Val(ret) = Some(mav_param_by_sysid[<<Val(sysid), order[i]>>][name])

\* a lookup for component 7 that finds the name only under component 0, after
\* component 7 (another parameter only) and component 1 (an empty dict)
C34_Witness ==
    /\ last_op.name = "get_vehicle_param"
    /\ last_op.params = <<Some(2), Some(7), "AIRSPEED_MAX">>
    /\ <<2, 7>> \in DOMAIN mav_param_by_sysid
    /\ <<2, 1>> \in DOMAIN mav_param_by_sysid
    /\ DOMAIN mav_param_by_sysid[<<2, 1>>] = {}
    /\ Val(ret) = Some([kind |-> "num", v |-> 20])

\* C35: in every reachable state, if the guidance mode is HOLD the target
\* filter state is unset
C35_HoldFilterUnset ==
    eng.guidance_state = "hold" => IsNone(eng.filtered_target)

\* HOLD entered by the operator after a tick emitted a position target at the
\* current time, which had set the filter state
C35_Witness ==
    /\ last_op.name \in {"hold", "ui_hold"}
    /\ eng.guidance_state = "hold"
    /\ eng.last_sent = now
    /\ Len(link) >= 1
    /\ IsNone(eng.filtered_target)

\* C36: while a manual target is active the filter state is unset or equal to
\* the manual target, and every position target emitted is the manual target
\* exactly, for every smoothing coefficient and every history before the
\* manual target was set
C36_ManualTargetExact ==
    ~IsNone(eng.manual_target) =>
        /\ (IsNone(eng.filtered_target) \/ eng.filtered_target = eng.manual_target)
        /\ \A i \in 1..Len(PositionsSent(eng)) :
               << PositionsSent(eng)[i].lat, PositionsSent(eng)[i].lon,
                  PositionsSent(eng)[i].alt >> = eng.manual_target

\* the manual target (3, 4, 20) emitted at time 2 with the coefficient at
\* 0.20, after an emission at time 1 had left another filter state
C36_Witness ==
    /\ last_op.name = "idle_task"
    /\ eng.manual_target = <<3, 4, 20>>
    /\ eng.catch_settings.target_filter_alpha = 20
    /\ link = <<1, 2>>
    /\ PositionsSent(eng) # <<>>
    /\ PositionsSent(eng)[1].lon = 4

\* speed selections of every profile and of several values, in place of the
\* resolved one
SelectionVariants ==
    { [Val(eng.last_speed_selection) EXCEPT !.profile = p, !.value = v,
                                            !.forced_velocity = (p = "max")]
        : p \in {"cruise", "max", "custom"}, v \in {0, 5, 2000, 3000} }

\* C37: whenever the preconditions of a solve pass, the follower's measured
\* horizontal speed is available, the solver takes the telemetry branch, and
\* what it returns (target and time-to-go) is the same for every value and
\* profile of the speed selection
C37_FallbackUnreachable ==
    FailingPreconditions(eng, now) = {} =>
        /\ ~IsNone(speed(Follower(eng)))
        /\ \A sel \in SelectionVariants :
               /\ compute_intercept(eng, now, sel).source = "telemetry"
               /\ compute_intercept(eng, now, sel).result
                     = compute_intercept(eng, now, Val(eng.last_speed_selection)).result

\* a tick on the MAX profile has solved and emitted for the re-selected
\* follower, vehicle 3
C37_Witness ==
    /\ last_op.name = "idle_task"
    /\ PositionsSent(eng) # <<>>
    /\ FailingPreconditions(eng, now) = {}
    /\ eng.catch_settings.follower_sysid = OtherFollowerKey[1]
    /\ Val(eng.last_speed_selection).profile = "max"

\* C38: once seeded, the follower-speed moving average changes only in a
\* solve whose preconditions passed, and then to
\* 0.35 * measured + 0.65 * old; no command, telemetry, clock step or
\* re-selection of the follower changes or unsets it
C38_AverageFrame ==
    [][ (~IsNone(eng.follower_speed_smoothed)
         /\ eng'.follower_speed_smoothed # eng.follower_speed_smoothed)
        => /\ last_op'.name = "idle_task"
           /\ FailingPreconditions(eng, now) = {}
           /\ ~IsNone(speed(Follower(eng)))
           /\ eng'.follower_speed_smoothed
                 = Some((35 * Val(speed(Follower(eng)))
                         + 65 * Val(eng.follower_speed_smoothed)) \div 100) ]_vars

\* the average seeded at 4 m/s by vehicle 2 has been blended in a tick with
\* the 15 m/s of vehicle 3, selected as follower in between
C38_Witness ==
    /\ last_op.name = "idle_task"
    /\ eng.catch_settings.follower_sysid = OtherFollowerKey[1]
    /\ eng.follower_speed_smoothed = Some(785)

\* the frame _send_target gives a command under an altitude mode
FrameOf(use_relative) ==
    IF use_relative THEN "GLOBAL_RELATIVE_ALT_INT" ELSE "GLOBAL_INT"

\* C39: every step that changes the altitude mode while a manual target is
\* present leaves no manual target, a manual target that stays keeps the
\* mode it was set under, and a tick that emits for a manual target uses the
\* frame of that mode
C39_ManualFrameKept ==
    [][ /\ (~IsNone(eng.manual_target)
            /\ eng'.catch_settings.use_relative_alt # eng.catch_settings.use_relative_alt)
           => IsNone(eng'.manual_target)
        /\ (~IsNone(eng.manual_target) /\ last_op'.name = "idle_task")
           => \A i \in 1..Len(PositionsSent(eng')) :
                 PositionsSent(eng')[i].frame = FrameOf(eng.catch_settings.use_relative_alt) ]_vars

\* a manual target set after the mode was changed to relative is emitted in
\* the relative frame
C39_Witness ==
    /\ last_op.name = "idle_task"
    /\ ~IsNone(eng.manual_target)
    /\ eng.catch_settings.use_relative_alt
    /\ PositionsSent(eng) # <<>>
    /\ PositionsSent(eng)[1].frame = "GLOBAL_RELATIVE_ALT_INT"
    /\ PositionsSent(eng)[1].lon = 12

\* C40: a tick takes up every command waiting in the pipe, applies the
\* commands one by one in the order they were sent, each once, evaluates
\* guidance only when none is left, and emits no position target and no
\* speed change when the command applied last was hold
C40_QueuedAppliedInOrder ==
    [][ /\ last_op'.name = "poll_commands" => commands' = ui_pipe
        /\ (tick_pc = "ui" /\ commands' # commands)
           => /\ commands' = Tail(commands)
              /\ last_op'.name = "ui_" \o Head(commands).cmd
              /\ eng' = process_ui_command(eng, Head(commands), mav_param_by_sysid)
        /\ last_op'.name = "idle_task" => commands = <<>>
        /\ (last_op.name = "ui_hold" /\ last_op'.name = "idle_task")
           => (PositionsSent(eng') = <<>> /\ SpeedsSent(eng') = <<>>) ]_vars


====
